---------------------------- MODULE Spec2Model ----------------------------
(***************************************************************************)
(* A model of hipster's debug-info parser and line-mapping engine          *)
(* (src/src/lineMapping.ts, src/src/highlighting.ts, which also holds the  *)
(* HipCompiler class, and src/src/assemblyViewer.ts).                      *)
(*                                                                         *)
(* Text is modelled at the character level: a string is a sequence of      *)
(* one-character strings, a buffer is the sequence of its lines (the       *)
(* result of content.split('\n')).  Line indices are 0-based as in the     *)
(* code: line i of a buffer is lines[i + 1].                               *)
(***************************************************************************)
EXTENDS Integers, Sequences, FiniteSets, TLC

VARIABLES
    content,       \* assemblyContent, split into lines
    sourceFiles,   \* the Map<number,string> handed to buildMapping
    lineMapping,   \* the LineMapping returned by buildMapping
    location,      \* result of the last getSourceLocation call
    asmLines,      \* result of the last getAssemblyLines call
    query,         \* arguments of the last lookup call
    compilerFiles, \* result of HipCompiler.extractSourceFiles
    kernels,       \* result of HipCompiler.extractAllKernels
    pc,            \* which operation ran last
    configuration, \* the setting hipster.buildDirectories
    buildDirectories, \* HipCompiler.buildDirectories
    fs,            \* the workspace folder on disk
    assemblyFiles, \* result of HipCompiler.findAssemblyFiles
    matches,       \* AssemblyViewerPanel._matches
    selectedMatch, \* AssemblyViewerPanel._selectedMatch
    diffState,     \* AssemblyViewerPanel._diffState
    html,          \* what the webview shows (this._panel.webview.html)
    requests,      \* the handlers of the panel that wait at an await
    issued,        \* how many handlers have been started
    currentDocument, \* AssemblyViewerPanel._currentDocument
    rejections,    \* the handlers whose promise was rejected
    now,           \* the time, in milliseconds
    timers,        \* the timers armed by setTimeout that have not run
    selectionTimeout, \* extension.ts: the handle of the debounce timer
    isProgrammaticSelection, \* AssemblyViewerPanel._isProgrammaticSelection
    currentPanel,  \* whether AssemblyViewerPanel.currentPanel is set
    highlightRequests \* calls of highlightAssemblyForSourceLine by the debounce

\* the state of the scanner and the state of the panel's views
scanVars == <<configuration, buildDirectories, fs, assemblyFiles>>
viewVars == <<matches, selectedMatch, diffState, html>>
sessionVars == <<requests, issued, currentDocument, rejections>>
timerVars == <<now, timers, selectionTimeout, isProgrammaticSelection,
               currentPanel, highlightRequests>>

vars == <<content, sourceFiles, lineMapping, location, asmLines, query,
          compilerFiles, kernels, pc, scanVars, viewVars, sessionVars,
          timerVars>>

---------------------------------------------------------------------------
(* JavaScript values *)

\* undefined / null (a failed String.match, a missing Map entry)
Undefined == [undefined |-> TRUE]

Min(S) == CHOOSE x \in S : \A y \in S : x <= y
Max(S) == CHOOSE x \in S : \A y \in S : x >= y

Last(s) == s[Len(s)]
Front(s) == SubSeq(s, 1, Len(s) - 1)

Range(seq) == {seq[k] : k \in 1..Len(seq)}

---------------------------------------------------------------------------
(* Characters and String methods *)

\* the characters \s and trim() treat as white space, among those used here
WhiteSpace == {" ", "\t", "\n"}
Digits == {"0", "1", "2", "3", "4", "5", "6", "7", "8", "9"}
Quote == {"\""}

DigitVal(c) ==
    CASE c = "0" -> 0 [] c = "1" -> 1 [] c = "2" -> 2 [] c = "3" -> 3
      [] c = "4" -> 4 [] c = "5" -> 5 [] c = "6" -> 6 [] c = "7" -> 7
      [] c = "8" -> 8 [] c = "9" -> 9

\* parseInt of a string of decimal digits
RECURSIVE parseInt(_)
parseInt(s) ==
    IF Len(s) = 0 THEN 0 ELSE 10 * parseInt(Front(s)) + DigitVal(Last(s))

\* String.prototype.startsWith / endsWith / includes
startsWith(s, p) == Len(s) >= Len(p) /\ SubSeq(s, 1, Len(p)) = p
endsWith(s, p) == Len(s) >= Len(p) /\ SubSeq(s, Len(s) - Len(p) + 1, Len(s)) = p
includes(s, p) ==
    \E k \in 1..(Len(s) - Len(p) + 1) : SubSeq(s, k, k + Len(p) - 1) = p

\* String.prototype.trim
trim(s) ==
    LET keep == {k \in 1..Len(s) : s[k] \notin WhiteSpace}
    IN  IF keep = {} THEN <<>> ELSE SubSeq(s, Min(keep), Max(keep))

---------------------------------------------------------------------------
(* Regular-expression pieces.  A greedy run X+ starting at position p ends  *)
(* at RunEnd; it matched at least once iff RunEnd >= p.  In every pattern   *)
(* below the character after a run is outside the run's class, so the       *)
(* greedy run is the only one a match can use.                              *)

\* last position of the maximal run of characters of class cls from p
RunEnd(s, p, cls) ==
    Max({p - 1} \cup {q \in p..Len(s) : \A k \in p..q : s[k] \in cls})

\* the same for a negated class: [^"]+ and \S+
RunEndNot(s, p, cls) ==
    Max({p - 1} \cup {q \in p..Len(s) : \A k \in p..q : s[k] \notin cls})

\* the literal lit occurs in s at position p
LitAt(s, p, lit) ==
    /\ p + Len(lit) - 1 <= Len(s)
    /\ \A k \in 1..Len(lit) : s[p + k - 1] = lit[k]

\* String.match of an unanchored pattern returns the attempt at the leftmost
\* position where one succeeds, null when none does: see locMatch, fileMatch1,
\* fileMatch2, sectionMatch and globlMatch, each built on its own attempt At.

\* line.match(/\.loc\s+(\d+)\s+(\d+)\s+\d+/), attempted at position p
locMatchAt(s, p) ==
    LET a  == p + 4
        w1 == RunEnd(s, a, WhiteSpace)
        d1 == RunEnd(s, w1 + 1, Digits)
        w2 == RunEnd(s, d1 + 1, WhiteSpace)
        d2 == RunEnd(s, w2 + 1, Digits)
        w3 == RunEnd(s, d2 + 1, WhiteSpace)
        d3 == RunEnd(s, w3 + 1, Digits)
    IN  IF /\ LitAt(s, p, <<".", "l", "o", "c">>)
           /\ w1 >= a /\ d1 > w1 /\ w2 > d1 /\ d2 > w2 /\ w3 > d2 /\ d3 > w3
        THEN [g1 |-> SubSeq(s, w1 + 1, d1), g2 |-> SubSeq(s, w2 + 1, d2)]
        ELSE Undefined

locMatch(s) ==
    LET hits == {p \in 1..Len(s) : locMatchAt(s, p) # Undefined}
    IN  IF hits = {} THEN Undefined ELSE locMatchAt(s, Min(hits))

\* line.match(/\.file\s+(\d+)\s+"([^"]+)"\s+"([^"]+)"/), attempted at p
fileMatch1At(s, p) ==
    LET a  == p + 5
        w1 == RunEnd(s, a, WhiteSpace)
        d1 == RunEnd(s, w1 + 1, Digits)
        w2 == RunEnd(s, d1 + 1, WhiteSpace)
        q1 == w2 + 1                         \* opening quote
        s1 == RunEndNot(s, q1 + 1, Quote)
        q2 == s1 + 1                         \* closing quote
        w3 == RunEnd(s, q2 + 1, WhiteSpace)
        q3 == w3 + 1
        s2 == RunEndNot(s, q3 + 1, Quote)
        q4 == s2 + 1
    IN  IF /\ LitAt(s, p, <<".", "f", "i", "l", "e">>)
           /\ w1 >= a /\ d1 > w1 /\ w2 > d1
           /\ LitAt(s, q1, <<"\"">>) /\ s1 > q1 /\ LitAt(s, q2, <<"\"">>)
           /\ w3 > q2
           /\ LitAt(s, q3, <<"\"">>) /\ s2 > q3 /\ LitAt(s, q4, <<"\"">>)
        THEN [g1 |-> SubSeq(s, w1 + 1, d1), g2 |-> SubSeq(s, q1 + 1, s1),
              g3 |-> SubSeq(s, q3 + 1, s2)]
        ELSE Undefined

fileMatch1(s) ==
    LET hits == {p \in 1..Len(s) : fileMatch1At(s, p) # Undefined}
    IN  IF hits = {} THEN Undefined ELSE fileMatch1At(s, Min(hits))

\* line.match(/\.file\s+(\d+)\s+"([^"]+)"/), attempted at p
fileMatch2At(s, p) ==
    LET a  == p + 5
        w1 == RunEnd(s, a, WhiteSpace)
        d1 == RunEnd(s, w1 + 1, Digits)
        w2 == RunEnd(s, d1 + 1, WhiteSpace)
        q1 == w2 + 1
        s1 == RunEndNot(s, q1 + 1, Quote)
        q2 == s1 + 1
    IN  IF /\ LitAt(s, p, <<".", "f", "i", "l", "e">>)
           /\ w1 >= a /\ d1 > w1 /\ w2 > d1
           /\ LitAt(s, q1, <<"\"">>) /\ s1 > q1 /\ LitAt(s, q2, <<"\"">>)
        THEN [g1 |-> SubSeq(s, w1 + 1, d1), g2 |-> SubSeq(s, q1 + 1, s1)]
        ELSE Undefined

fileMatch2(s) ==
    LET hits == {p \in 1..Len(s) : fileMatch2At(s, p) # Undefined}
    IN  IF hits = {} THEN Undefined ELSE fileMatch2At(s, Min(hits))

\* line.match(/\.section\s+\.text\./), attempted at p
sectionMatchAt(s, p) ==
    LET a  == p + 8
        w1 == RunEnd(s, a, WhiteSpace)
    IN  /\ LitAt(s, p, <<".", "s", "e", "c", "t", "i", "o", "n">>)
        /\ w1 >= a
        /\ LitAt(s, w1 + 1, <<".", "t", "e", "x", "t", ".">>)

sectionMatch(s) == \E p \in 1..Len(s) : sectionMatchAt(s, p)

\* line.match(/\.globl\s+(\S+)/), attempted at p
globlMatchAt(s, p) ==
    LET a  == p + 6
        w1 == RunEnd(s, a, WhiteSpace)
        s1 == RunEndNot(s, w1 + 1, WhiteSpace)
    IN  IF /\ LitAt(s, p, <<".", "g", "l", "o", "b", "l">>)
           /\ w1 >= a /\ s1 > w1
        THEN [g1 |-> SubSeq(s, w1 + 1, s1)]
        ELSE Undefined

globlMatch(s) ==
    LET hits == {p \in 1..Len(s) : globlMatchAt(s, p) # Undefined}
    IN  IF hits = {} THEN Undefined ELSE globlMatchAt(s, Min(hits))

---------------------------------------------------------------------------
(* Node's path module (posix) *)

Slash == <<"/">>

\* the segments of a path between its separators
RECURSIVE splitSlash(_)
splitSlash(p) ==
    LET at == {k \in 1..Len(p) : p[k] = "/"}
    IN  IF at = {} THEN <<p>>
        ELSE <<SubSeq(p, 1, Min(at) - 1)>>
                 \o splitSlash(SubSeq(p, Min(at) + 1, Len(p)))

RECURSIVE joinSlash(_)
joinSlash(segs) ==
    IF Len(segs) = 0 THEN <<>>
    ELSE IF Len(segs) = 1 THEN segs[1]
    ELSE segs[1] \o Slash \o joinSlash(Tail(segs))

\* normalizeString: drops empty and "." segments, resolves ".."
RECURSIVE normalizeSegments(_, _, _)
normalizeSegments(segs, acc, allowAboveRoot) ==
    IF Len(segs) = 0 THEN acc
    ELSE LET h == Head(segs)
             rest == Tail(segs)
         IN  IF h = <<>> \/ h = <<".">>
             THEN normalizeSegments(rest, acc, allowAboveRoot)
             ELSE IF h = <<".", ".">>
             THEN IF Len(acc) > 0 /\ Last(acc) # <<".", ".">>
                  THEN normalizeSegments(rest, Front(acc), allowAboveRoot)
                  ELSE IF allowAboveRoot
                  THEN normalizeSegments(rest, Append(acc, h), allowAboveRoot)
                  ELSE normalizeSegments(rest, acc, allowAboveRoot)
             ELSE normalizeSegments(rest, Append(acc, h), allowAboveRoot)

\* path.normalize
normalize(p) ==
    IF Len(p) = 0 THEN <<".">>
    ELSE LET isAbsolute == p[1] = "/"
             trailingSeparator == Last(p) = "/"
             body == joinSlash(normalizeSegments(splitSlash(p), <<>>, ~isAbsolute))
         IN  IF Len(body) = 0
             THEN IF isAbsolute THEN Slash
                  ELSE IF trailingSeparator THEN <<".", "/">> ELSE <<".">>
             ELSE (IF isAbsolute THEN Slash ELSE <<>>) \o body
                      \o (IF trailingSeparator THEN Slash ELSE <<>>)

\* path.join of two arguments
join(a, b) ==
    LET joined == IF Len(a) = 0 THEN b
                  ELSE IF Len(b) = 0 THEN a
                  ELSE a \o Slash \o b
    IN  IF Len(joined) = 0 THEN <<".">> ELSE normalize(joined)

---------------------------------------------------------------------------
(* Map<K,V>: a sequence of entries in insertion order *)

mapHas(m, k) == \E n \in 1..Len(m) : m[n].key = k

mapGet(m, k) ==
    IF mapHas(m, k)
    THEN m[CHOOSE n \in 1..Len(m) : m[n].key = k].value
    ELSE Undefined

\* Map.set keeps the place of an existing key and appends a new one
mapSet(m, k, v) ==
    IF mapHas(m, k)
    THEN [n \in 1..Len(m) |-> IF m[n].key = k THEN [key |-> k, value |-> v]
                                                ELSE m[n]]
    ELSE Append(m, [key |-> k, value |-> v])

mapKeys(m) == {m[n].key : n \in 1..Len(m)}

---------------------------------------------------------------------------
(* LineMappingBuilder (lineMapping.ts) *)

\* the key `${normalizedPath}:${currentSourceLine}` of sourceToAsm; the line
\* is the digits after the last colon, so the pair determines the key and
\* the key the pair
sourceKey(normalizedPath, sourceLine) == <<normalizedPath, sourceLine>>

\* the classification of a trimmed line in buildMapping
isDirective(trimmed) == startsWith(trimmed, <<".">>)
isComment(trimmed) ==
    startsWith(trimmed, <<";">>) \/ startsWith(trimmed, <<"/", "/">>)
isEmpty(trimmed) == Len(trimmed) = 0
isLabel(trimmed) == endsWith(trimmed, <<":">>) /\ ~includes(trimmed, <<" ">>)

isInstruction(line) ==
    LET trimmed == trim(line)
    IN  ~isEmpty(trimmed) /\ ~isDirective(trimmed) /\ ~isComment(trimmed)
            /\ ~isLabel(trimmed)

\* a walk that starts on the first file's first line
walkInit_located ==
    [currentFileId |-> 1, currentSourceLine |-> 0,
     sourceToAsm |-> <<>>, asmToSource |-> <<>>]

\* the walk's state before the first line
walkInit ==
    [currentFileId |-> -1, currentSourceLine |-> -1,
     sourceToAsm |-> <<>>, asmToSource |-> <<>>]

\* a .loc whose line stays 1-indexed
locUpdate_oneIndexed(w, line) ==
    LET m == locMatch(line)
    IN  IF m # Undefined
        THEN [w EXCEPT !.currentFileId = parseInt(m.g1),
                       !.currentSourceLine = parseInt(m.g2)]
        ELSE w

\* the .loc part of the loop body: the current file-id and source line
\* after line `line`
locUpdate(w, line) ==
    LET m == locMatch(line)
    IN  IF m # Undefined
        THEN [w EXCEPT !.currentFileId = parseInt(m.g1),
                       !.currentSourceLine = parseInt(m.g2) - 1]
        ELSE w

\* the guard under which a line is tracked
mappingActive(w) == w.currentFileId >= 0 /\ w.currentSourceLine >= 0

\* the reverse-map entry recorded for a line
reverseEntry(normalizedPath, w) ==
    [file |-> normalizedPath, line |-> w.currentSourceLine]

\* a bucket that grows at its front
pushForward_unshift(sourceToAsm, key, i) ==
    IF mapHas(sourceToAsm, key)
    THEN mapSet(sourceToAsm, key, <<i>> \o mapGet(sourceToAsm, key))
    ELSE mapSet(sourceToAsm, key, <<i>>)

\* sourceToAsm after pushing i to the bucket of key
pushForward(sourceToAsm, key, i) ==
    IF mapHas(sourceToAsm, key)
    THEN mapSet(sourceToAsm, key, Append(mapGet(sourceToAsm, key), i))
    ELSE mapSet(sourceToAsm, key, <<i>>)

\* the tracking part of the loop body: line i recorded under the walk's
\* current location
trackLine(w, line, files, i) ==
    LET sourceFilePath == mapGet(files, w.currentFileId)
    IN  IF mappingActive(w) /\ sourceFilePath # Undefined
           /\ Len(sourceFilePath) > 0
        THEN LET normalizedPath == normalize(sourceFilePath)
                 rev == mapSet(w.asmToSource, i, reverseEntry(normalizedPath, w))
             IN  IF isInstruction(line)
                 THEN [w EXCEPT !.asmToSource = rev,
                                !.sourceToAsm =
                                    pushForward(w.sourceToAsm,
                                        sourceKey(normalizedPath,
                                                  w.currentSourceLine), i)]
                 ELSE [w EXCEPT !.asmToSource = rev]
        ELSE w

\* a walk that keeps the previous location when a directive's file-id is
\* missing from the table
buildMappingStep_inherits(w0, lines, files, i) ==
    LET w1 == locUpdate(w0, lines[i + 1])
    IN  trackLine(IF mapHas(files, w1.currentFileId) THEN w1 ELSE w0,
                  lines[i + 1], files, i)

\* one iteration of the for loop of buildMapping, on line index i
buildMappingStep(w0, lines, files, i) ==
    trackLine(locUpdate(w0, lines[i + 1]), lines[i + 1], files, i)

\* the walk's state after the iterations i = 0 .. n-1
RECURSIVE buildMappingLoop(_, _, _)
buildMappingLoop(lines, files, n) ==
    IF n = 0 THEN walkInit
    ELSE buildMappingStep(buildMappingLoop(lines, files, n - 1),
                          lines, files, n - 1)

\* buildMapping(assemblyContent, sourceFiles)
buildMapping(lines, files) ==
    LET w == buildMappingLoop(lines, files, Len(lines))
    IN  [sourceToAsm |-> w.sourceToAsm, asmToSource |-> w.asmToSource]

\* getAssemblyLines(mapping, sourceFile, sourceLine)
getAssemblyLines(mapping, sourceFile, sourceLine) ==
    LET key == sourceKey(normalize(sourceFile), sourceLine)
    IN  IF mapHas(mapping.sourceToAsm, key)
        THEN mapGet(mapping.sourceToAsm, key)
        ELSE <<>>

\* getSourceLocation(mapping, assemblyLine)
getSourceLocation(mapping, assemblyLine) ==
    mapGet(mapping.asmToSource, assemblyLine)

---------------------------------------------------------------------------
(* File tables *)

\* HipCompiler.extractSourceFiles: one line of the loop
extractSourceFilesStep(table, line) ==
    LET format1Match == fileMatch1(line)
        format2Match == fileMatch2(line)
    IN  IF format1Match # Undefined
        THEN mapSet(table, parseInt(format1Match.g1),
                    normalize(join(format1Match.g2, format1Match.g3)))
        ELSE IF format2Match # Undefined
        THEN mapSet(table, parseInt(format2Match.g1),
                    normalize(format2Match.g2))
        ELSE table

RECURSIVE extractSourceFilesLoop(_, _)
extractSourceFilesLoop(lines, n) ==
    IF n = 0 THEN <<>>
    ELSE extractSourceFilesStep(extractSourceFilesLoop(lines, n - 1), lines[n])

extractSourceFiles(lines) == extractSourceFilesLoop(lines, Len(lines))

\* AssemblyViewerPanel.extractSourceFilesFromAssembly: one line of the loop
extractSourceFilesFromAssemblyStep(table, line) ==
    LET format1Match == fileMatch1(line)
        format2Match == fileMatch2(line)
    IN  IF format1Match # Undefined
        THEN mapSet(table, parseInt(format1Match.g1),
                    join(format1Match.g2, format1Match.g3))
        ELSE IF format2Match # Undefined
        THEN mapSet(table, parseInt(format2Match.g1), format2Match.g2)
        ELSE table

RECURSIVE extractSourceFilesFromAssemblyLoop(_, _)
extractSourceFilesFromAssemblyLoop(lines, n) ==
    IF n = 0 THEN <<>>
    ELSE extractSourceFilesFromAssemblyStep(
             extractSourceFilesFromAssemblyLoop(lines, n - 1), lines[n])

extractSourceFilesFromAssembly(lines) ==
    extractSourceFilesFromAssemblyLoop(lines, Len(lines))

---------------------------------------------------------------------------
(* Kernel regions: HipCompiler.extractAllKernels *)

\* symbol.length > 5
MinSymbolLength == 5
\* j <= Math.min(endLine, startLine + 20)
SearchWindow == 20

\* !symbol.includes('.') && symbol.length > 5
isKernelSymbol(symbol) ==
    ~includes(symbol, <<".">>) /\ Len(symbol) > MinSymbolLength

\* first loop: the indices of the lines matching the .section pattern
RECURSIVE sectionScan(_, _)
sectionScan(lines, n) ==
    IF n = 0 THEN <<>>
    ELSE LET found == sectionScan(lines, n - 1)
         IN  IF sectionMatch(lines[n]) THEN Append(found, n - 1) ELSE found

\* fallback loop: the indices of the .globl lines exporting a kernel symbol
RECURSIVE globlScan(_, _)
globlScan(lines, n) ==
    IF n = 0 THEN <<>>
    ELSE LET found == globlScan(lines, n - 1)
             match == globlMatch(lines[n])
         IN  IF match # Undefined /\ isKernelSymbol(match.g1)
             THEN Append(found, n - 1) ELSE found

\* both loops together: every .section line and every kernel .globl line
sectionLines_merged(lines) ==
    LET S == {i \in 0..(Len(lines) - 1) :
                \/ sectionMatch(lines[i + 1])
                \/ /\ globlMatch(lines[i + 1]) # Undefined
                   /\ isKernelSymbol(globlMatch(lines[i + 1]).g1)}
        asc[n \in 0..Cardinality(S)] ==
            IF n = 0 THEN <<>>
            ELSE Append(asc[n - 1],
                        Min({i \in S : \A k \in 1..(n - 1) : asc[n - 1][k] < i}))
    IN  asc[Cardinality(S)]

\* sectionLines once both loops are done
sectionLines(lines) ==
    LET primary == sectionScan(lines, Len(lines))
    IN  IF Len(primary) = 0 THEN globlScan(lines, Len(lines)) ELSE primary

\* an end that is the next region's own start line
regionEnd_shared(lines, starts, i) ==
    IF i + 1 < Len(starts) THEN starts[i + 2] ELSE Len(lines) - 1

\* endLine of the region of index i (0-based, as in the code)
regionEnd(lines, starts, i) ==
    IF i + 1 < Len(starts) THEN starts[i + 2] - 1 ELSE Len(lines) - 1

\* a search through the whole region
findKernelSymbol_wholeRegion(lines, startLine, endLine) ==
    LET hits == {j \in startLine..endLine :
                    /\ globlMatch(lines[j + 1]) # Undefined
                    /\ isKernelSymbol(globlMatch(lines[j + 1]).g1)}
    IN  IF hits = {} THEN Undefined
        ELSE globlMatch(lines[Min(hits) + 1]).g1

\* the inner loop: the first kernel symbol exported within the window
findKernelSymbol(lines, startLine, endLine) ==
    LET hits == {j \in startLine..Min({endLine, startLine + SearchWindow}) :
                    /\ globlMatch(lines[j + 1]) # Undefined
                    /\ isKernelSymbol(globlMatch(lines[j + 1]).g1)}
    IN  IF hits = {} THEN Undefined
        ELSE globlMatch(lines[Min(hits) + 1]).g1

\* the outer loop over the first n regions
RECURSIVE extractKernelsLoop(_, _, _)
extractKernelsLoop(lines, starts, n) ==
    IF n = 0 THEN <<>>
    ELSE LET found == extractKernelsLoop(lines, starts, n - 1)
             startLine == starts[n]
             endLine == regionEnd(lines, starts, n - 1)
             kernelSymbol == findKernelSymbol(lines, startLine, endLine)
         IN  IF kernelSymbol # Undefined
             THEN Append(found, [symbol |-> kernelSymbol,
                                 startLine |-> startLine,
                                 endLine |-> endLine])
             ELSE found

extractAllKernels(lines) ==
    LET starts == sectionLines(lines)
    IN  IF Len(starts) = 0 THEN <<>>
        ELSE extractKernelsLoop(lines, starts, Len(starts))

---------------------------------------------------------------------------
(* The resolver: HipCompiler.scanDirectory's records and                   *)
(* HipCompiler.findMatchingAssemblies                                       *)

\* path.basename: the part after the last separator, trailing separators
\* ignored
basename(p) ==
    LET kept == {k \in 1..Len(p) : p[k] # "/"}
    IN  IF kept = {} THEN <<>>
        ELSE LET end == Max(kept)
                 seps == {k \in 1..end : p[k] = "/"}
             IN  SubSeq(p, IF seps = {} THEN 1 ELSE Max(seps) + 1, end)

\* records that each hold the file table of their own region
RECURSIVE kernelRecords_ownTable(_, _, _, _, _, _)
kernelRecords_ownTable(fullPath, lines, found, table, buildDirectoryName, n) ==
    IF n = 0 THEN <<>>
    ELSE Append(kernelRecords_ownTable(fullPath, lines, found, table,
                                       buildDirectoryName, n - 1),
                [assemblyPath |-> fullPath,
                 assemblyContent |-> lines,
                 kernelSymbol |-> found[n].symbol,
                 sourceFiles |->
                     extractSourceFiles(SubSeq(lines, found[n].startLine + 1,
                                               found[n].endLine + 1)),
                 startLine |-> found[n].startLine,
                 endLine |-> found[n].endLine,
                 buildDirectory |-> buildDirectoryName])

\* the AssemblyFile records scanDirectory pushes for one file that it read:
\* one per kernel, all holding the file's content and file table
RECURSIVE kernelRecords(_, _, _, _, _, _)
kernelRecords(fullPath, lines, found, table, buildDirectoryName, n) ==
    IF n = 0 THEN <<>>
    ELSE Append(kernelRecords(fullPath, lines, found, table,
                              buildDirectoryName, n - 1),
                [assemblyPath |-> fullPath,
                 assemblyContent |-> lines,
                 kernelSymbol |-> found[n].symbol,
                 sourceFiles |-> table,
                 startLine |-> found[n].startLine,
                 endLine |-> found[n].endLine,
                 buildDirectory |-> buildDirectoryName])

scanFile(fullPath, lines, buildDirectoryName) ==
    LET found == extractAllKernels(lines)
    IN  kernelRecords(fullPath, lines, found, extractSourceFiles(lines),
                      buildDirectoryName, Len(found))

\* targetFileId !== undefined: some entry has the queried basename
hasTargetFileId(table, sourceBasename) ==
    \E n \in 1..Len(table) : basename(table[n].value) = sourceBasename

\* the entry with the lowest file-id among those of the queried basename
findTargetFileId_lowestId(table, sourceBasename) ==
    LET hits == {table[n].key : n \in {k \in 1..Len(table) :
                                    basename(table[k].value) = sourceBasename}}
    IN  IF hits = {} THEN Undefined ELSE Min(hits)

\* targetFileId: the first entry of the table, in insertion order, whose
\* basename is the queried one
findTargetFileId(table, sourceBasename) ==
    LET hits == {n \in 1..Len(table) :
                    basename(table[n].value) = sourceBasename}
    IN  IF hits = {} THEN Undefined ELSE table[Min(hits)].key

\* a .loc whose line is converted to 0-indexed
resolverLocUpdate_zeroIndexed(w, line) ==
    LET m == locMatch(line)
    IN  IF m # Undefined
        THEN [w EXCEPT !.currentFileId = parseInt(m.g1),
                       !.currentSourceLine = parseInt(m.g2) - 1]
        ELSE w

\* findAssemblyLinesForSourceLine: the .loc part of the loop body
resolverLocUpdate(w, line) ==
    LET m == locMatch(line)
    IN  IF m # Undefined
        THEN [w EXCEPT !.currentFileId = parseInt(m.g1),
                       !.currentSourceLine = parseInt(m.g2)]
        ELSE w

\* findAssemblyLinesForSourceLine: the loop body for line i
resolverStep(w0, line, i, fileId, sourceLine) ==
    LET w == resolverLocUpdate(w0, line)
        trimmed == trim(line)
    IN  IF /\ w.currentFileId = fileId
           /\ w.currentSourceLine = sourceLine
           /\ ~isEmpty(trimmed) /\ ~isDirective(trimmed) /\ ~isComment(trimmed)
        THEN [w EXCEPT !.matchingLines = Append(@, i)]
        ELSE w

RECURSIVE resolverLoop(_, _, _, _)
resolverLoop(lines, fileId, sourceLine, n) ==
    IF n = 0
    THEN [currentFileId |-> -1, currentSourceLine |-> -1, matchingLines |-> <<>>]
    ELSE resolverStep(resolverLoop(lines, fileId, sourceLine, n - 1),
                      lines[n], n - 1, fileId, sourceLine)

findAssemblyLinesForSourceLine(lines, fileId, sourceLine) ==
    resolverLoop(lines, fileId, sourceLine, Len(lines)).matchingLines

\* the lines looked up whatever the queried line is
linesOfMatch_always(lines, targetFileId, sourceLine) ==
    findAssemblyLinesForSourceLine(lines, targetFileId, sourceLine)

\* assemblyLines of a match: looked up only for a queried line > 0
linesOfMatch(lines, targetFileId, sourceLine) ==
    IF sourceLine > 0
    THEN findAssemblyLinesForSourceLine(lines, targetFileId, sourceLine)
    ELSE <<>>

\* findMatchingAssemblies: the loop body for one AssemblyFile
matchStep(found, asmFile, sourceFile, sourceLine) ==
    LET targetFileId == findTargetFileId(asmFile.sourceFiles,
                                         basename(sourceFile))
    IN  IF ~hasTargetFileId(asmFile.sourceFiles, basename(sourceFile))
        THEN found
        ELSE Append(found,
                    [sourceFile |-> normalize(sourceFile),
                     kernelSymbol |-> asmFile.kernelSymbol,
                     assemblyFile |-> asmFile.assemblyPath,
                     assemblyLines |-> linesOfMatch(asmFile.assemblyContent,
                                                    targetFileId, sourceLine),
                     assemblyContent |-> asmFile.assemblyContent,
                     startLine |-> asmFile.startLine,
                     endLine |-> asmFile.endLine,
                     buildDirectory |-> asmFile.buildDirectory])

RECURSIVE matchLoop(_, _, _, _)
matchLoop(files, sourceFile, sourceLine, n) ==
    IF n = 0 THEN <<>>
    ELSE matchStep(matchLoop(files, sourceFile, sourceLine, n - 1),
                   files[n], sourceFile, sourceLine)

\* findMatchingAssemblies, given the result of findAssemblyFiles
findMatchingAssemblies(files, sourceFile, sourceLine) ==
    matchLoop(files, sourceFile, sourceLine, Len(files))

---------------------------------------------------------------------------
(* The disk.  fs is the list of the entries below the workspace folder,    *)
(* each a record [dir, name, kind, mtime, lines, fails]: the directory it  *)
(* is in, its name, "dir" / "file" / "other", its modification time, its   *)
(* content when it is a file, and which call on it throws ("none", "stat", *)
(* "readdir", "read").  The entries of a directory are listed in the order *)
(* they have in fs.                                                        *)

\* the path of an entry: the path of its directory, a separator, its name
pathOf(entry) == entry.dir \o Slash \o entry.name

\* fs.statSync(p) / stat(p) returns
canStat(files, p) ==
    \E n \in 1..Len(files) : pathOf(files[n]) = p /\ files[n].fails # "stat"

\* fs.existsSync(p): false when p cannot be stat-ed
existsSync(files, p) == canStat(files, p)

\* the entry stat(p) describes
statOf(files, p) ==
    files[Min({n \in 1..Len(files) : pathOf(files[n]) = p})]

\* readdir(dir) returns: dir is a directory that can be listed
canReaddir(files, dir) ==
    \E n \in 1..Len(files) :
        /\ pathOf(files[n]) = dir
        /\ files[n].kind = "dir"
        /\ files[n].fails \notin {"stat", "readdir"}

\* the names readdir(dir) returns
readdir(files, dir) ==
    LET inDir(entry) == entry.dir = dir
        listed == SelectSeq(files, inDir)
    IN  [n \in 1..Len(listed) |-> listed[n].name]

---------------------------------------------------------------------------
(* The scan of the build directories (HipCompiler) *)

GcnInfix ==
    <<"-", "h", "i", "p", "-", "a", "m", "d", "g", "c", "n", "-", "a", "m",
      "d", "-", "a", "m", "d", "h", "s", "a", "-">>
AsmExtension == <<".", "s">>

isGCNAssembly(filename) ==
    includes(filename, GcnInfix) /\ endsWith(filename, AsmExtension)

\* ['build']: the initial and the default list of build directories
DefaultBuildDirectory == <<"b", "u", "i", "l", "d">>

\* the configured list, ['build'] when it is empty
updateBuildDirectories(configured) ==
    IF Len(configured) = 0 THEN <<DefaultBuildDirectory>> ELSE configured

RECURSIVE scanDirectory(_, _, _)
RECURSIVE scanEntries(_, _, _, _)

\* the body of the for loop over the entries of dir, from the first of
\* entries on: a stat that throws leaves the loop, a readFile that throws
\* leaves only the file
scanEntries(files, dir, entries, buildDirectoryName) ==
    IF entries = <<>> THEN <<>>
    ELSE LET entry == Head(entries)
             fullPath == join(dir, entry)
         IN  IF ~canStat(files, fullPath) THEN <<>>
             ELSE LET entryStat == statOf(files, fullPath)
                      pushed ==
                          IF entryStat.kind = "dir"
                          THEN scanDirectory(files, fullPath, buildDirectoryName)
                          ELSE IF entryStat.kind = "file" /\ isGCNAssembly(entry)
                          THEN IF entryStat.fails = "read" THEN <<>>
                               ELSE scanFile(fullPath, entryStat.lines,
                                             buildDirectoryName)
                          ELSE <<>>
                  IN  pushed \o scanEntries(files, dir, Tail(entries),
                                            buildDirectoryName)

\* what scanDirectory pushes to results
scanDirectory(files, dir, buildDirectoryName) ==
    IF ~canReaddir(files, dir) THEN <<>>
    ELSE scanEntries(files, dir, readdir(files, dir), buildDirectoryName)

\* the for loop over this.buildDirectories, from the first of dirs on
RECURSIVE scanBuildDirectories(_, _, _)
scanBuildDirectories(files, workspaceFolder, dirs) ==
    IF dirs = <<>> THEN <<>>
    ELSE LET buildDir == Head(dirs)
             buildPath == join(workspaceFolder, buildDir)
             assemblyFilesOfDir ==
                 IF ~existsSync(files, buildPath) THEN <<>>
                 ELSE scanDirectory(files, buildPath, buildDir)
         IN  assemblyFilesOfDir
                 \o scanBuildDirectories(files, workspaceFolder, Tail(dirs))

findAssemblyFiles(files, workspaceFolder, configured) ==
    scanBuildDirectories(files, workspaceFolder,
                         updateBuildDirectories(configured))

---------------------------------------------------------------------------
(* The panel's version check: AssemblyViewerPanel.getWebviewContent *)

\* stats.mtime.getTime(), 0 when statSync throws
timestampOf(files, match) ==
    IF canStat(files, match.assemblyFile)
    THEN statOf(files, match.assemblyFile).mtime
    ELSE 0

\* this._matches.filter(m => m.kernelSymbol === this._selectedMatch?.kernelSymbol)
sameKernelMatches(found, selected) ==
    LET same(m) == selected # Undefined /\ m.kernelSymbol = selected.kernelSymbol
    IN  SelectSeq(found, same)

\* the head of the list sorted by ascending timestamp
latestMatch_oldest(files, same) ==
    same[Min({k \in 1..Len(same) :
                \A j \in 1..Len(same) :
                    timestampOf(files, same[k]) <= timestampOf(files, same[j])})]

\* matchesWithTimestamps.sort((a, b) => b.timestamp - a.timestamp)[0].match:
\* the sort is stable, its head is the first match of the greatest timestamp
latestMatch(files, same) ==
    same[Min({k \in 1..Len(same) :
                \A j \in 1..Len(same) :
                    timestampOf(files, same[j]) <= timestampOf(files, same[k])})]

\* hasOtherVersions, isLatest, latestBuildDir and whether the warning is shown
versionCheck(files, found, selected) ==
    LET same == sameKernelMatches(found, selected)
        hasOtherVersions == Len(same) > 1
    IN  IF hasOtherVersions /\ selected # Undefined
        THEN LET latest == latestMatch(files, same)
                 isLatest == latest.assemblyFile = selected.assemblyFile
             IN  [hasOtherVersions |-> hasOtherVersions,
                  isLatest |-> isLatest,
                  latestBuildDir |-> latest.buildDirectory,
                  outdatedWarning |-> ~isLatest]
        ELSE [hasOtherVersions |-> hasOtherVersions,
              isLatest |-> TRUE,
              latestBuildDir |-> IF selected # Undefined
                                 THEN selected.buildDirectory ELSE <<>>,
              outdatedWarning |-> FALSE]

\* assemblyContent.split('\n').slice(startLine, endLine + 1)
sliceOfMatch(match) ==
    SubSeq(match.assemblyContent, match.startLine + 1,
           Min({match.endLine + 1, Len(match.assemblyContent)}))

\* what the assembly view shows: the version check, the compare button and
\* the lines of the selected kernel
getWebviewContent(files, found, selected) ==
    LET check == versionCheck(files, found, selected)
    IN  [view |-> "assembly",
         isLatest |-> check.isLatest,
         latestBuildDir |-> check.latestBuildDir,
         outdatedWarning |-> check.outdatedWarning,
         showCompareButton |-> check.hasOtherVersions,
         assemblyLines |-> IF selected # Undefined
                           THEN sliceOfMatch(selected) ELSE <<>>]

\* groupMatchesByFile: the matches of each source file basename, the
\* basenames in the order of their first match
RECURSIVE groupMatchesByFile(_, _)
groupMatchesByFile(found, n) ==
    IF n = 0 THEN <<>>
    ELSE LET groups == groupMatchesByFile(found, n - 1)
             sourceFileName == basename(found[n].sourceFile)
         IN  IF mapHas(groups, sourceFileName)
             THEN mapSet(groups, sourceFileName,
                         Append(mapGet(groups, sourceFileName), found[n]))
             ELSE mapSet(groups, sourceFileName, <<found[n]>>)

\* this._matches.findIndex(m => m === match), 0-based, -1 when absent
findIndex(found, match) ==
    LET hits == {n \in 1..Len(found) : found[n] = match}
    IN  IF hits = {} THEN -1 ELSE Min(hits) - 1

\* showComparePicker: the indices of the matches of the selected symbol other
\* than the selected match itself
compatibleMatches(found, selected) ==
    {index \in 0..(Len(found) - 1) :
        /\ found[index + 1].kernelSymbol = selected.kernelSymbol
        /\ index # findIndex(found, selected)}

---------------------------------------------------------------------------
(* The diff view: AssemblyViewerPanel.getDiffViewContent *)

\* lines[i] || ''
paddedLine(lines, i) == IF i < Len(lines) THEN lines[i + 1] ELSE <<>>

\* line || ' ', the text handed to the highlighter
shownLine(line) == IF line = <<>> THEN <<" ">> ELSE line

\* the number of rows, were it the length of the shorter region
maxLines_shorter(lines1, lines2) == Min({Len(lines1), Len(lines2)})

\* Math.max(lines1.length, lines2.length)
maxLines(lines1, lines2) == Max({Len(lines1), Len(lines2)})

\* the comparison, were it made on the trimmed lines
isDifferent_trimmed(line1, line2) == trim(line1) # trim(line2)

\* line1 !== line2
isDifferent(line1, line2) == line1 # line2

\* one row of the two panes: the padded lines, the class both sides carry
\* and the data-line of each side
diffRow(match1, match2, lines1, lines2, i) ==
    LET line1 == paddedLine(lines1, i)
        line2 == paddedLine(lines2, i)
        diffClass == IF isDifferent(line1, line2) THEN "diff-changed" ELSE ""
    IN  [left |-> [line |-> line1, shown |-> shownLine(line1),
                   diffClass |-> diffClass, dataLine |-> match1.startLine + i],
         right |-> [line |-> line2, shown |-> shownLine(line2),
                    diffClass |-> diffClass, dataLine |-> match2.startLine + i]]

getDiffViewContent(state) ==
    LET lines1 == sliceOfMatch(state.match1)
        lines2 == sliceOfMatch(state.match2)
    IN  [view |-> "diff",
         rows |-> [n \in 1..maxLines(lines1, lines2) |->
                      diffRow(state.match1, state.match2, lines1, lines2, n - 1)]]

---------------------------------------------------------------------------
(* HipCompiler.demangleSymbol.  The run of c++filt is a record [failed,    *)
(* stdout]: failed when exec rejects (the tool is missing or exits with an *)
(* error), stdout what it printed otherwise.                               *)

\* the trimmed output, whatever it is
demangleSymbol_trimmedOnly(mangledName, run) ==
    IF run.failed THEN mangledName ELSE trim(run.stdout)

demangleSymbol(mangledName, run) ==
    IF run.failed THEN mangledName
    ELSE LET demangled == trim(run.stdout)
         IN  IF Len(demangled) = 0 THEN mangledName ELSE demangled

---------------------------------------------------------------------------
(* The session of the panel: AssemblyViewerPanel.updateAssembly *)

\* the AssemblyMatch objects a scan creates: object tells the objects of one
\* scan from those of another (=== compares objects, not their fields)
newObjects(found, id) ==
    [k \in 1..Len(found) |->
        [sourceFile |-> found[k].sourceFile,
         kernelSymbol |-> found[k].kernelSymbol,
         assemblyFile |-> found[k].assemblyFile,
         assemblyLines |-> found[k].assemblyLines,
         assemblyContent |-> found[k].assemblyContent,
         startLine |-> found[k].startLine,
         endLine |-> found[k].endLine,
         buildDirectory |-> found[k].buildDirectory,
         object |-> id]]

\* the comparator of the sorts by modification time: 0 when a statSync throws
compareByTime(files, a, b) ==
    IF canStat(files, a.assemblyFile) /\ canStat(files, b.assemblyFile)
    THEN statOf(files, b.assemblyFile).mtime - statOf(files, a.assemblyFile).mtime
    ELSE 0

\* m put before the first element that the comparator orders after it
insertByTime(files, sorted, m) ==
    LET later == {k \in 1..Len(sorted) : compareByTime(files, sorted[k], m) > 0}
    IN  IF later = {} THEN Append(sorted, m)
        ELSE SubSeq(sorted, 1, Min(later) - 1) \o <<m>>
                 \o SubSeq(sorted, Min(later), Len(sorted))

\* a sort that puts the oldest first
RECURSIVE sortByTime_ascending(_, _, _)
sortByTime_ascending(files, list, n) ==
    IF n = 0 THEN <<>>
    ELSE LET sorted == sortByTime_ascending(files, list, n - 1)
             earlier == {k \in 1..Len(sorted) :
                            compareByTime(files, sorted[k], list[n]) < 0}
         IN  IF earlier = {} THEN Append(sorted, list[n])
             ELSE SubSeq(sorted, 1, Min(earlier) - 1) \o <<list[n]>>
                      \o SubSeq(sorted, Min(earlier), Len(sorted))

\* the first n elements of list sorted by the comparator: Array.prototype.sort
\* is stable
RECURSIVE sortByTime(_, _, _)
sortByTime(files, list, n) ==
    IF n = 0 THEN <<>>
    ELSE insertByTime(files, sortByTime(files, list, n - 1), list[n])

\* the orders a sort can leave: the sorted one when the comparator is
\* consistent (no statSync throws, or it compares one pair only), any order
\* otherwise
sortOutcomes(files, list) ==
    IF Len(list) <= 2
       \/ \A k \in 1..Len(list) : canStat(files, list[k].assemblyFile)
    THEN {sortByTime(files, list, Len(list))}
    ELSE {[k \in 1..Len(list) |-> list[p[k]]] :
             p \in {q \in [1..Len(list) -> 1..Len(list)] :
                       \A i, j \in 1..Len(list) : i # j => q[i] # q[j]}}

\* buildMapping(match.assemblyContent, extractSourceFilesFromAssembly(...))
mappingOfMatch(match) ==
    buildMapping(match.assemblyContent,
                 extractSourceFilesFromAssembly(match.assemblyContent))

\* a default selection that leaves the mapping as it was
selectDefault_keepsMapping(selected, mapping, found) ==
    IF selected = Undefined /\ Len(found) > 0
    THEN [selectedMatch |-> found[1], lineMapping |-> mapping]
    ELSE [selectedMatch |-> selected, lineMapping |-> mapping]

\* if (!this._selectedMatch && this._matches.length > 0): the first match
\* and its mapping
selectDefault(selected, mapping, found) ==
    IF selected = Undefined /\ Len(found) > 0
    THEN [selectedMatch |-> found[1], lineMapping |-> mappingOfMatch(found[1])]
    ELSE [selectedMatch |-> selected, lineMapping |-> mapping]

\* getNoAssemblyContent()
getNoAssemblyContent == [view |-> "none"]

\* the part of getWebviewContent that runs before its first await: the group
\* of the selected match, the first group when no group holds it
selectedFileIndex(fileGroups, selected) ==
    LET holding == {n \in 1..Len(fileGroups) :
                       \E k \in 1..Len(fileGroups[n].value) :
                           fileGroups[n].value[k] = selected}
    IN  IF holding = {} THEN -1 ELSE Min(holding) - 1

kernelsOfSelectedFile(fileGroups, selected) ==
    IF Len(fileGroups) = 0 THEN <<>>
    ELSE fileGroups[Max({selectedFileIndex(fileGroups, selected), 0}) + 1].value

\* demangledKernels: the options of the kernel selector
demangledKernels(kernelList, run) ==
    [k \in 1..Len(kernelList) |->
        [mangled |-> kernelList[k].kernelSymbol,
         demangled |-> demangleSymbol(kernelList[k].kernelSymbol, run),
         buildDirectory |-> kernelList[k].buildDirectory,
         displayName |-> demangleSymbol(kernelList[k].kernelSymbol, run)
                             \o <<" ", "(">> \o kernelList[k].buildDirectory
                             \o <<")">>]]

\* the assembly view rendered after the awaits of getWebviewContent: the
\* kernel list prepared before them, the rest read from the panel then
renderAssembly(shown, selected, kernelList, kernelIndex, run) ==
    [view |-> shown.view,
     isLatest |-> shown.isLatest,
     latestBuildDir |-> shown.latestBuildDir,
     outdatedWarning |-> shown.outdatedWarning,
     showCompareButton |-> shown.showCompareButton,
     assemblyLines |-> shown.assemblyLines,
     kernels |-> demangledKernels(kernelList, run),
     selectedKernelIndex |-> kernelIndex,
     kernelTitle |-> IF selected # Undefined
                     THEN demangleSymbol(selected.kernelSymbol, run)
                     ELSE <<>>]

\* the diff view: its rows and its title
renderDiff(shown, state, run) ==
    [view |-> "diff",
     rows |-> shown.rows,
     title |-> demangleSymbol(state.match1.kernelSymbol, run)]

---------------------------------------------------------------------------
(* The assembly text the line mapping is checked on.  A buffer is one of   *)
(* the .file headers below followed by up to MaxBody lines of BodyLines,   *)
(* or the five-line example of the specification.                          *)

MaxBody == 3

\* decimal digits of a small number, as the assembler prints it
Dec(n) ==
    CASE n = 0 -> <<"0">> [] n = 1 -> <<"1">> [] n = 2 -> <<"2">>
      [] n = 7 -> <<"7">> [] n = 10 -> <<"1", "0">> [] n = 11 -> <<"1", "1">>
      [] n = 12 -> <<"1", "2">> [] n = 5 -> <<"5">> [] n = 6 -> <<"6">>

\* "\t.loc F L C"
LocText(f, l, c) ==
    <<"\t", ".", "l", "o", "c", " ">> \o Dec(f) \o <<" ">> \o Dec(l)
        \o <<" ">> \o Dec(c)

\* the location directives of the vocabulary, with what each one says
LocDirectives ==
    { [text |-> LocText(1, 10, 1), fileId |-> 1, line |-> 10, column |-> 1],
      [text |-> LocText(1, 11, 1), fileId |-> 1, line |-> 11, column |-> 1],
      [text |-> LocText(2, 11, 7), fileId |-> 2, line |-> 11, column |-> 7],
      [text |-> LocText(1, 0, 1),  fileId |-> 1, line |-> 0,  column |-> 1] }

\* "\t.loc 1 12": a .loc without its column
LocNoColumn == <<"\t", ".", "l", "o", "c", " ", "1", " ", "1", "2">>

InstrLine     == <<"\t", "s", "_", "n", "o", "p", " ", "0">>
SemiComment   == <<";", " ", "c">>
SlashComment  == <<"/", "/", " ", "c">>
HashComment   == <<"#", " ", "c">>
BlankLine     == <<" ">>
LabelLine     == <<"L", "0", ":">>

\* comment, blank and bare-label lines (the directives of the vocabulary are
\* the .loc and .file lines)
NonInstructionLines ==
    {SemiComment, SlashComment, HashComment, BlankLine, LabelLine}

BodyLines ==
    {LocText(1, 10, 1), LocText(2, 11, 7), LocText(1, 0, 1), LocNoColumn,
     InstrLine} \cup NonInstructionLines

PathA == <<"/", "p", "/", "a", ".", "h", "i", "p">>
PathB == <<"/", "p", "/", "b", ".", "h", "i", "p">>

\* .file 1 "/p" "a.hip"
File1TwoStrings ==
    <<"\t", ".", "f", "i", "l", "e", " ", "1", " ", "\"", "/", "p", "\"", " ",
      "\"", "a", ".", "h", "i", "p", "\"">>
\* .file 1 "/p/./a.hip"
File1OneString ==
    <<"\t", ".", "f", "i", "l", "e", " ", "1", " ", "\"", "/", "p", "/", ".",
      "/", "a", ".", "h", "i", "p", "\"">>
\* .file 2 "/p" "b.hip"
File2TwoStrings ==
    <<"\t", ".", "f", "i", "l", "e", " ", "2", " ", "\"", "/", "p", "\"", " ",
      "\"", "b", ".", "h", "i", "p", "\"">>
\* .file 2 "/p//a.hip": a second id for the file of id 1
File2SameAsFile1 ==
    <<"\t", ".", "f", "i", "l", "e", " ", "2", " ", "\"", "/", "p", "/", "/",
      "a", ".", "h", "i", "p", "\"">>

FileHeaders ==
    { <<File1TwoStrings>>,
      <<File1OneString, File2TwoStrings>>,
      <<File1TwoStrings, File2SameAsFile1>> }

Bodies == UNION {[1..n -> BodyLines] : n \in 0..MaxBody}

\* `.loc 1 10 1`, two instructions, `.loc 1 11 1`, one instruction
ExampleBuffer ==
    <<File1TwoStrings, LocText(1, 10, 1), InstrLine, InstrLine,
      LocText(1, 11, 1), InstrLine>>

\* file-id 2 does not resolve between two directives of file-id 1
ResumeBuffer ==
    <<File1TwoStrings, LocText(1, 10, 1), InstrLine, LocText(2, 11, 7),
      InstrLine, LocText(1, 10, 1), InstrLine>>

Buffers ==
    {h \o b : h \in FileHeaders, b \in Bodies}
        \cup {ExampleBuffer, ResumeBuffer}

\* the arguments the lookups are called with
LookupFiles == {PathB, <<"/", "p", "/", ".", "/", "a", ".", "h", "i", "p">>}
LookupLines == {9, 10}

emptyMapping == [sourceToAsm |-> <<>>, asmToSource |-> <<>>]

\* the scanner before any scan: the default configuration, nothing on disk
\* looked at
NothingScanned ==
    /\ configuration = <<DefaultBuildDirectory>>
    /\ buildDirectories = <<DefaultBuildDirectory>>
    /\ fs = <<>>
    /\ assemblyFiles = <<>>

\* the panel before it has matches: _matches = [], no selection, no diff
NothingShown ==
    /\ matches = <<>>
    /\ selectedMatch = Undefined
    /\ diffState = Undefined
    /\ html = Undefined

\* no handler of the panel has been started
NoSession ==
    /\ requests = {}
    /\ issued = 0
    /\ currentDocument = Undefined
    /\ rejections = {}

\* the panel is open, no timer is armed, the editor's selection has not
\* changed yet
NoTimers ==
    /\ now = 0
    /\ timers = {}
    /\ selectionTimeout = Undefined
    /\ isProgrammaticSelection = FALSE
    /\ currentPanel = TRUE
    /\ highlightRequests = 0

---------------------------------------------------------------------------
(* Specification of the line mapping: the panel builds the mapping of a    *)
(* buffer (selectMatch, updateAssembly) and then looks locations up.       *)

Init ==
    /\ content \in Buffers
    /\ sourceFiles = <<>>
    /\ lineMapping = emptyMapping
    /\ location = Undefined
    /\ asmLines = <<>>
    /\ query = Undefined
    /\ compilerFiles = <<>>
    /\ kernels = <<>>
    /\ pc = "start"
    /\ NothingScanned
    /\ NothingShown
    /\ NoSession
    /\ NoTimers

\* this._lineMapping = this._mappingBuilder.buildMapping(content,
\*     this.extractSourceFilesFromAssembly(content))
BuildMapping ==
    /\ \/ pc = "start"
       \/ pc = "scanned" /\ Len(kernels) > 0 /\ Len(compilerFiles) > 0
    /\ sourceFiles' = extractSourceFilesFromAssembly(content)
    /\ lineMapping' = buildMapping(content, sourceFiles')
    /\ pc' = "built"
    /\ UNCHANGED <<content, location, asmLines, query, compilerFiles, kernels>>
    /\ UNCHANGED <<scanVars, viewVars, sessionVars, timerVars>>

\* a click on an assembly line: getSourceLocation(this._lineMapping, line)
GetSourceLocation ==
    /\ pc = "built"
    /\ \E i \in 0..Len(content) :
          /\ query' = [assemblyLine |-> i]
          /\ location' = getSourceLocation(lineMapping, i)
    /\ pc' = "located"
    /\ UNCHANGED <<content, sourceFiles, lineMapping, asmLines, compilerFiles,
                   kernels, scanVars, viewVars, sessionVars, timerVars>>

\* a cursor move in the editor: getAssemblyLines(this._lineMapping, file, line)
GetAssemblyLines ==
    /\ pc = "built"
    /\ \E f \in LookupFiles, l \in LookupLines :
          /\ query' = [sourceFile |-> f, sourceLine |-> l]
          /\ asmLines' = getAssemblyLines(lineMapping, f, l)
    /\ pc' = "highlighted"
    /\ UNCHANGED <<content, sourceFiles, lineMapping, location, compilerFiles,
                   kernels, scanVars, viewVars, sessionVars, timerVars>>

Next == BuildMapping \/ GetSourceLocation \/ GetAssemblyLines

Spec == Init /\ [][Next]_vars

---------------------------------------------------------------------------
(* The assembly text the parser is checked on: buffers of .file lines, and *)
(* buffers put together from section lines, .globl lines and runs of       *)
(* instructions.                                                           *)

MaxFileLines == 3
MaxItems == 4

PathC == <<"/", "c", ".", "h", "i", "p">>

\* .file 2 "/p/" "../c.hip"
File2UpDir ==
    <<"\t", ".", "f", "i", "l", "e", " ", "2", " ", "\"", "/", "p", "/",
      "\"", " ", "\"", ".", ".", "/", "c", ".", "h", "i", "p", "\"">>
\* .file "x.hip": the directive without an id
FileNoId ==
    <<"\t", ".", "f", "i", "l", "e", " ", "\"", "x", ".", "h", "i", "p",
      "\"">>

\* the .file directives of the vocabulary, with the id and the path each one
\* declares
FileDirectives ==
    { [text |-> File1TwoStrings,  fileId |-> 1, path |-> PathA],
      [text |-> File1OneString,   fileId |-> 1, path |-> PathA],
      [text |-> File2TwoStrings,  fileId |-> 2, path |-> PathB],
      [text |-> File2SameAsFile1, fileId |-> 2, path |-> PathA],
      [text |-> File2UpDir,       fileId |-> 2, path |-> PathC] }

FileLines == {d.text : d \in FileDirectives} \cup {FileNoId, InstrLine}

\* .section .text.k
SectionText ==
    <<"\t", ".", "s", "e", "c", "t", "i", "o", "n", "\t", ".", "t", "e",
      "x", "t", ".", "k">>
\* .section .data
SectionData ==
    <<"\t", ".", "s", "e", "c", "t", "i", "o", "n", "\t", ".", "d", "a",
      "t", "a">>
\* .globl kernel
GloblKernel ==
    <<"\t", ".", "g", "l", "o", "b", "l", "\t", "k", "e", "r", "n", "e",
      "l">>
\* .globl kernelB
GloblKernelB ==
    <<"\t", ".", "g", "l", "o", "b", "l", "\t", "k", "e", "r", "n", "e",
      "l", "B">>
\* .globl abcde
GloblShort ==
    <<"\t", ".", "g", "l", "o", "b", "l", "\t", "a", "b", "c", "d", "e">>
\* .globl kern.el
GloblDotted ==
    <<"\t", ".", "g", "l", "o", "b", "l", "\t", "k", "e", "r", "n", ".",
      "e", "l">>

\* the .globl directives of the vocabulary, with the symbol each one exports
\* and whether it names a kernel
GloblDirectives ==
    { [text |-> GloblKernel,  symbol |-> <<"k", "e", "r", "n", "e", "l">>,
       kernel |-> TRUE],
      [text |-> GloblKernelB, symbol |-> <<"k", "e", "r", "n", "e", "l", "B">>,
       kernel |-> TRUE],
      [text |-> GloblShort,   symbol |-> <<"a", "b", "c", "d", "e">>,
       kernel |-> FALSE],
      [text |-> GloblDotted,  symbol |-> <<"k", "e", "r", "n", ".", "e", "l">>,
       kernel |-> FALSE] }

\* n instruction lines
Instructions(n) == [k \in 1..n |-> InstrLine]

\* the last item is a section line followed by its .globl line
KernelItems ==
    { <<SectionText>>, <<SectionData>>, <<GloblKernel>>, <<GloblShort>>,
      <<GloblDotted>>, <<InstrLine>>, Instructions(19),
      <<SectionText, GloblKernelB>> }

RECURSIVE Concat(_)
Concat(items) ==
    IF items = <<>> THEN <<>> ELSE Head(items) \o Concat(Tail(items))

KernelBuffers ==
    {Concat(items) : items \in UNION {[1..n -> KernelItems] : n \in 1..MaxItems}}

\* a buffer of .file lines ends with the head of a kernel
FileBuffers ==
    {b \o <<SectionText, GloblKernel>> :
        b \in UNION {[1..n -> FileLines] : n \in 1..MaxFileLines}}

ScanBuffers == FileBuffers \cup KernelBuffers

---------------------------------------------------------------------------
(* Specification of the parser: scanDirectory reads an assembly file and   *)
(* extracts its kernels and its file table; for a file that yields a match *)
(* (a kernel, and a file table naming the source) the panel then builds    *)
(* the line mapping of the content with its own file table.                *)

ScanInit ==
    /\ content \in ScanBuffers
    /\ sourceFiles = <<>>
    /\ lineMapping = emptyMapping
    /\ location = Undefined
    /\ asmLines = <<>>
    /\ query = Undefined
    /\ compilerFiles = <<>>
    /\ kernels = <<>>
    /\ pc = "found"
    /\ NothingScanned
    /\ NothingShown
    /\ NoSession
    /\ NoTimers

\* const kernels = this.extractAllKernels(content);
\* const sourceFiles = this.extractSourceFiles(content);
ScanFile ==
    /\ pc = "found"
    /\ kernels' = extractAllKernels(content)
    /\ compilerFiles' = extractSourceFiles(content)
    /\ pc' = "scanned"
    /\ UNCHANGED <<content, sourceFiles, lineMapping, location, asmLines, query>>
    /\ UNCHANGED <<scanVars, viewVars, sessionVars, timerVars>>

ScanNext == ScanFile \/ BuildMapping

ScanSpec == ScanInit /\ [][ScanNext]_vars

---------------------------------------------------------------------------
(* The assembly text the resolver is checked on: one assembly file whose   *)
(* content is a header of .file lines followed by up to MaxMatchItems      *)
(* kernel heads, location directives, instructions and labels.             *)

MaxMatchItems == 3

NameA ==
    <<"a", ".", "h", "i", "p">>
NameB ==
    <<"b", ".", "h", "i", "p">>

\* the headers, each with the entries of its file table in insertion order
\* (a redeclared id keeps its place and takes the later path)
MatchHeaders ==
    { [lines |-> <<File1TwoStrings>>,
       entries |-> <<[fileId |-> 1, name |-> NameA]>>],
      [lines |-> <<File2SameAsFile1, File1TwoStrings>>,
       entries |-> <<[fileId |-> 2, name |-> NameA],
                     [fileId |-> 1, name |-> NameA]>>],
      [lines |-> <<File2SameAsFile1, File1TwoStrings, File2TwoStrings>>,
       entries |-> <<[fileId |-> 2, name |-> NameB],
                     [fileId |-> 1, name |-> NameA]>>] }

\* the location directives of the bodies
MatchLocs ==
    { [text |-> LocText(1, 5, 1), fileId |-> 1, line |-> 5],
      [text |-> LocText(2, 5, 1), fileId |-> 2, line |-> 5],
      [text |-> LocText(1, 0, 1), fileId |-> 1, line |-> 0],
      [text |-> LocText(1, 6, 1), fileId |-> 1, line |-> 6] }

MatchItems ==
    { <<SectionText, GloblKernel>>, <<SectionText, GloblKernelB>>,
      <<LocText(1, 5, 1)>>, <<LocText(2, 5, 1)>>, <<InstrLine>>,
      <<LabelLine>> }

\* two kernels with code of source line 5 in each
TwoKernelsBuffer ==
    <<File1TwoStrings, SectionText, GloblKernel, LocText(1, 5, 1), InstrLine,
      SectionText, GloblKernelB, LocText(1, 5, 1), InstrLine>>

\* a store instruction
StoreLine ==
    <<"\t", "g", "l", "o", "b", "a", "l", "_", "s", "t", "o", "r", "e",
      "_", "d", "w", "o", "r", "d", " ", "v", "0", ",", " ", "v", "1", ",",
      " ", "o", "f", "f">>

\* one kernel region, `.file 1 "/p" "a.hip"`, and `.loc 1 5 1` immediately
\* before a store instruction
EndToEndBuffer ==
    <<File1TwoStrings, SectionText, GloblKernel, LabelLine, LocText(1, 5, 1),
      StoreLine, LocText(1, 6, 1), InstrLine>>

\* a kernel whose code starts at source line 0
LineZeroBuffer ==
    <<File1TwoStrings, SectionText, GloblKernel, LocText(1, 0, 1), InstrLine>>

MatchBuffers ==
    {h.lines \o Concat(items) :
        h \in MatchHeaders,
        items \in UNION {[1..n -> MatchItems] : n \in 0..MaxMatchItems}}
      \cup {EndToEndBuffer, LineZeroBuffer, TwoKernelsBuffer}

\* the queried source files, each with its basename
QueryPathB ==
    <<"/", "w", "/", ".", "/", "b", ".", "h", "i", "p">>

QueryFiles ==
    { [path |-> NameA, name |-> NameA], [path |-> QueryPathB, name |-> NameB] }

QueryLines == {0, 5}

\* where the assembly file is
MatchBuildPath ==
    <<"/", "w", "/", "b", "u", "i", "l", "d">>
GcnName ==
    <<"k", "-", "h", "i", "p", "-", "a", "m", "d", "g", "c", "n", "-", "a",
      "m", "d", "-", "a", "m", "d", "h", "s", "a", "-", "g", "f", "x", "9",
      "0", "a", ".", "s">>

---------------------------------------------------------------------------
(* Specification of the resolver: findMatchingAssemblies on a workspace    *)
(* whose one build root holds one assembly file.                           *)

MatchInit ==
    /\ content \in MatchBuffers
    /\ sourceFiles = <<>>
    /\ lineMapping = emptyMapping
    /\ location = Undefined
    /\ asmLines = <<>>
    /\ query = Undefined
    /\ compilerFiles = <<>>
    /\ kernels = <<>>
    /\ pc = "found"
    /\ NothingScanned
    /\ NothingShown
    /\ NoSession
    /\ NoTimers

\* this._matches = await this._compiler.findMatchingAssemblies(
\*     workspaceFolder, sourceFileName, sourceLine || 0)
FindMatchingAssemblies ==
    /\ pc = "found"
    /\ \E f \in QueryFiles, l \in QueryLines :
          /\ query' = [sourceFile |-> f.path, sourceLine |-> l]
          /\ kernels' = extractAllKernels(content)
          /\ compilerFiles' = extractSourceFiles(content)
          /\ assemblyFiles' =
                kernelRecords(join(MatchBuildPath, GcnName), content, kernels',
                              compilerFiles', DefaultBuildDirectory,
                              Len(kernels'))
          /\ matches' = findMatchingAssemblies(assemblyFiles', f.path, l)
    /\ pc' = "matched"
    /\ UNCHANGED <<content, sourceFiles, lineMapping, location, asmLines>>
    /\ UNCHANGED <<configuration, buildDirectories, fs, selectedMatch,
                   diffState, html, sessionVars, timerVars>>

MatchNext == FindMatchingAssemblies

MatchSpec == MatchInit /\ [][MatchNext]_vars

---------------------------------------------------------------------------
(* The panel after a scan of two build roots.  The same translation unit   *)
(* was built twice: build holds the older text, build2 a text whose first  *)
(* kernel is three lines longer, has a blank after one operand and has an   *)
(* empty line, and whose second kernel is unchanged.                       *)

MaxMatches == 3
MaxTime == 2

BuildDirectory2 == <<"b", "u", "i", "l", "d", "2">>
WorkspaceFolder == <<"/", "w">>

\* s_nop 0 followed by a blank
InstrSpaced == <<"\t", "s", "_", "n", "o", "p", " ", "0", " ">>

\* kernel is lines 1..5 (five lines), kernelB lines 6..8
PanelContent1 ==
    <<File1TwoStrings, SectionText, GloblKernel, InstrLine, StoreLine,
      InstrLine, SectionText, GloblKernelB, InstrLine>>

\* kernel is lines 1..8 (eight lines, line 6 empty), kernelB lines 9..11
PanelContent2 ==
    <<File1TwoStrings, SectionText, GloblKernel, InstrSpaced, StoreLine,
      InstrLine, <<>>, InstrLine, LabelLine, SectionText, GloblKernelB,
      InstrLine>>

PanelFiles ==
    <<[dir |-> join(WorkspaceFolder, DefaultBuildDirectory), name |-> GcnName,
       buildDirectory |-> DefaultBuildDirectory, lines |-> PanelContent1],
      [dir |-> join(WorkspaceFolder, BuildDirectory2), name |-> GcnName,
       buildDirectory |-> BuildDirectory2, lines |-> PanelContent2]>>

\* the disk on which the two files have the modification times t1 and t2;
\* time 0 stands for a file deleted since the scan
PanelDisk(t1, t2) ==
    LET entry(n, t) == [dir |-> PanelFiles[n].dir, name |-> PanelFiles[n].name,
                        kind |-> "file", mtime |-> t,
                        lines |-> PanelFiles[n].lines, fails |-> "none"]
    IN  (IF t1 = 0 THEN <<>> ELSE <<entry(1, t1)>>)
            \o (IF t2 = 0 THEN <<>> ELSE <<entry(2, t2)>>)

PanelDisks == {PanelDisk(t1, t2) : t1 \in 0..MaxTime, t2 \in 0..MaxTime}

\* the match records a scan of the two files returns for a.hip
PanelRecords ==
    Range(findMatchingAssemblies(
              scanFile(pathOf(PanelFiles[1]), PanelFiles[1].lines,
                       PanelFiles[1].buildDirectory)
                  \o scanFile(pathOf(PanelFiles[2]), PanelFiles[2].lines,
                              PanelFiles[2].buildDirectory),
              NameA, 0))

\* the lists of distinct records, in any order: the modification times may
\* have changed since the list was sorted
PanelMatchLists ==
    {list \in UNION {[1..n -> PanelRecords] : n \in 1..MaxMatches} :
        \A i, j \in 1..Len(list) : i # j => list[i] # list[j]}

\* updateAssembly has stored the matches, selected the first one, built its
\* mapping and rendered the assembly view
PanelInit ==
    /\ fs \in PanelDisks
    /\ matches \in PanelMatchLists
    /\ selectedMatch = matches[1]
    /\ content = selectedMatch.assemblyContent
    /\ sourceFiles = extractSourceFilesFromAssembly(content)
    /\ lineMapping = buildMapping(content, sourceFiles)
    /\ html = getWebviewContent(fs, matches, selectedMatch)
    /\ diffState = Undefined
    /\ location = Undefined
    /\ asmLines = <<>>
    /\ query = [sourceFile |-> NameA, sourceLine |-> 0]
    /\ compilerFiles = <<>>
    /\ kernels = <<>>
    /\ pc = "shown"
    /\ configuration = <<DefaultBuildDirectory, BuildDirectory2>>
    /\ buildDirectories = configuration
    /\ assemblyFiles = <<>>
    /\ requests = {}
    /\ issued = 1
    /\ currentDocument = PathA
    /\ rejections = {}
    /\ NoTimers

\* the indices a selectMatch message can carry: in range, negative, too high
SelectFileIndices == -1..1
SelectKernelIndices == -1..MaxMatches

\* a selectMatch that takes the nearest record for an index out of range
selectMatch_nearest(found, selected, mapping, fileIndex, kernelIndex) ==
    LET fileGroups == groupMatchesByFile(found, Len(found))
        group == fileGroups[Max({Min({fileIndex + 1, Len(fileGroups)}), 1})].value
        chosen == group[Max({Min({kernelIndex + 1, Len(group)}), 1})]
    IN  [selectedMatch |-> chosen, lineMapping |-> mappingOfMatch(chosen),
         rendered |-> TRUE]

\* selectMatch(fileIndex, kernelIndex) up to the rendering: the selection
\* and the mapping it leaves, and whether it goes on to render the view
selectMatch(found, selected, mapping, fileIndex, kernelIndex) ==
    LET fileGroups == groupMatchesByFile(found, Len(found))
        ignored == [selectedMatch |-> selected, lineMapping |-> mapping,
                    rendered |-> FALSE]
    IN  IF fileIndex < 0 \/ fileIndex >= Len(fileGroups)
        THEN ignored
        ELSE LET matchesForFile == fileGroups[fileIndex + 1].value
             IN  IF kernelIndex < 0 \/ kernelIndex >= Len(matchesForFile)
                 THEN ignored
                 ELSE [selectedMatch |-> matchesForFile[kernelIndex + 1],
                       lineMapping |->
                           mappingOfMatch(matchesForFile[kernelIndex + 1]),
                       rendered |-> TRUE]

\* case 'selectMatch', sent by the selectors of the view with the indices of
\* an option they list: selectMatch(message.fileIndex, message.kernelIndex)
SelectMatch ==
    /\ pc = "shown"
    /\ \E fileIndex \in 0..1, kernelIndex \in 0..(MaxMatches - 1) :
          \E outcome \in {selectMatch(matches, selectedMatch, lineMapping,
                                      fileIndex, kernelIndex)} :
             /\ outcome.rendered
             /\ selectedMatch' = outcome.selectedMatch
             /\ lineMapping' = outcome.lineMapping
    /\ content' = selectedMatch'.assemblyContent
    /\ sourceFiles' = extractSourceFilesFromAssembly(content')
    /\ html' = getWebviewContent(fs, matches, selectedMatch')
    /\ UNCHANGED <<location, asmLines, query, compilerFiles, kernels, pc>>
    /\ UNCHANGED <<scanVars, matches, diffState, sessionVars, timerVars>>

\* case 'compare': showComparePicker, the user picks one of the other
\* versions, compareMatches(currentIndex, selected.index)
Compare ==
    /\ pc = "shown"
    /\ selectedMatch # Undefined
    /\ \E index2 \in compatibleMatches(matches, selectedMatch) :
          LET index1 == findIndex(matches, selectedMatch)
          IN  diffState' = [match1 |-> matches[index1 + 1],
                            match2 |-> matches[index2 + 1],
                            index1 |-> index1, index2 |-> index2]
    /\ html' = getDiffViewContent(diffState')
    /\ pc' = "diff"
    /\ UNCHANGED <<content, sourceFiles, lineMapping, location, asmLines, query,
                   compilerFiles, kernels>>
    /\ UNCHANGED <<scanVars, matches, selectedMatch, sessionVars, timerVars>>

PanelNext == SelectMatch \/ Compare

PanelSpec == PanelInit /\ [][PanelNext]_vars

---------------------------------------------------------------------------
(* selectMatch on any message: the panel of PanelInit on one disk receives *)
(* selectMatch messages whose indices are in range, negative or too high;  *)
(* query holds the indices of the last message.                            *)

SelectInit ==
    /\ PanelInit
    /\ fs = PanelDisk(1, 2)

\* case 'selectMatch': selectMatch(message.fileIndex, message.kernelIndex)
SelectMatchMessage ==
    /\ pc = "shown"
    /\ \E fileIndex \in SelectFileIndices,
          kernelIndex \in SelectKernelIndices :
          \E outcome \in {selectMatch(matches, selectedMatch, lineMapping,
                                      fileIndex, kernelIndex)} :
             /\ query' = [fileIndex |-> fileIndex, kernelIndex |-> kernelIndex]
             /\ selectedMatch' = outcome.selectedMatch
             /\ lineMapping' = outcome.lineMapping
             /\ html' = IF outcome.rendered
                        THEN getWebviewContent(fs, matches, selectedMatch')
                        ELSE html
    /\ content' = selectedMatch'.assemblyContent
    /\ sourceFiles' = extractSourceFilesFromAssembly(content')
    /\ UNCHANGED <<location, asmLines, compilerFiles, kernels, pc>>
    /\ UNCHANGED <<scanVars, matches, diffState, sessionVars, timerVars>>

SelectNext == SelectMatchMessage

SelectSpec == SelectInit /\ [][SelectNext]_vars

---------------------------------------------------------------------------
(* The disks the scan is checked on.  build, when it exists, lists up to   *)
(* MaxEntries of the items below; build2 is absent, a directory holding    *)
(* one assembly file, or a regular file.                                   *)

MaxEntries == 2

\* -hip-amdgcn-amd-amdhsa-gfx90a.s
GcnSuffix == Tail(GcnName)

FsOneKernel == <<File1TwoStrings, SectionText, GloblKernel, InstrLine>>
FsTwoKernels ==
    <<File1TwoStrings, SectionText, GloblKernel, InstrLine, SectionText,
      GloblKernelB, InstrLine>>

\* the kernels each text holds
FsTexts ==
    { [lines |-> FsOneKernel,
       kernels |-> {[kernelSymbol |-> <<"k", "e", "r", "n", "e", "l">>,
                     startLine |-> 1, endLine |-> 3]}],
      [lines |-> FsTwoKernels,
       kernels |-> {[kernelSymbol |-> <<"k", "e", "r", "n", "e", "l">>,
                     startLine |-> 1, endLine |-> 3],
                    [kernelSymbol |-> <<"k", "e", "r", "n", "e", "l", "B">>,
                     startLine |-> 4, endLine |-> 6]}] }

\* an assembly file of one kernel and one of two kernels
ItemGcn ==
    [name |-> GcnName, kind |-> "file", lines |-> FsOneKernel,
     fails |-> "none", children |-> <<>>]
ItemTwo ==
    [name |-> <<"t">> \o GcnSuffix, kind |-> "file", lines |-> FsTwoKernels,
     fails |-> "none", children |-> <<>>]
\* an assembly file that cannot be read
ItemUnreadable ==
    [name |-> <<"r">> \o GcnSuffix, kind |-> "file", lines |-> FsOneKernel,
     fails |-> "read", children |-> <<>>]
\* a dangling link: stat throws
ItemDead ==
    [name |-> <<"d", "e", "a", "d">>, kind |-> "other", lines |-> <<>>,
     fails |-> "stat", children |-> <<>>]
\* host.s: assembly text outside the naming convention
ItemHost ==
    [name |-> <<"h", "o", "s", "t", ".", "s">>, kind |-> "file",
     lines |-> FsOneKernel, fails |-> "none", children |-> <<>>]
\* k-hip-amdgcn-amd-amdhsa-gfx90a.so: the infix without the extension
ItemObject ==
    [name |-> GcnName \o <<"o">>, kind |-> "file", lines |-> FsOneKernel,
     fails |-> "none", children |-> <<>>]
\* a pipe named like an assembly file
ItemFifo ==
    [name |-> <<"f">> \o GcnSuffix, kind |-> "other", lines |-> <<>>,
     fails |-> "none", children |-> <<>>]
\* sub/ holding an assembly file, alone or after a dangling link
ItemSub ==
    [name |-> <<"s", "u", "b">>, kind |-> "dir", lines |-> <<>>,
     fails |-> "none", children |-> <<ItemGcn>>]
ItemSubDead ==
    [name |-> <<"s", "u", "b">>, kind |-> "dir", lines |-> <<>>,
     fails |-> "none", children |-> <<ItemDead, ItemGcn>>]
\* a directory that cannot be listed
ItemLocked ==
    [name |-> <<"l", "o", "c", "k">>, kind |-> "dir", lines |-> <<>>,
     fails |-> "readdir", children |-> <<ItemGcn>>]
\* a directory named like an assembly file
ItemGcnDir ==
    [name |-> <<"d">> \o GcnSuffix, kind |-> "dir", lines |-> <<>>,
     fails |-> "none", children |-> <<ItemTwo>>]

FsItems ==
    {ItemGcn, ItemTwo, ItemUnreadable, ItemDead, ItemHost, ItemObject,
     ItemFifo, ItemSub, ItemSubDead, ItemLocked, ItemGcnDir}

\* the names of the items that follow the naming convention
ConventionNames ==
    {GcnName, <<"t">> \o GcnSuffix, <<"r">> \o GcnSuffix, <<"f">> \o GcnSuffix,
     <<"d">> \o GcnSuffix}

FsEntry(dir, item) ==
    [dir |-> dir, name |-> item.name, kind |-> item.kind, mtime |-> 1,
     lines |-> item.lines, fails |-> item.fails]

\* the entry of an item in dir, followed by the entries of its children
FsEntries(dir, item) ==
    <<FsEntry(dir, item)>>
        \o [k \in 1..Len(item.children) |->
               FsEntry(dir \o Slash \o item.name, item.children[k])]

\* the listings of a directory: items of different names
FsListings ==
    {list \in UNION {[1..n -> FsItems] : n \in 0..MaxEntries} :
        \A i, j \in 1..Len(list) : i # j => list[i].name # list[j].name}

FsRoot(name, kind) ==
    [dir |-> WorkspaceFolder, name |-> name, kind |-> kind, mtime |-> 1,
     lines |-> <<>>, fails |-> "none"]

BuildDisks ==
    {<<>>}
        \cup {<<FsRoot(DefaultBuildDirectory, "dir")>>
                  \o Concat([k \in 1..Len(list) |->
                                FsEntries(WorkspaceFolder \o Slash
                                              \o DefaultBuildDirectory, list[k])])
              : list \in FsListings}

Build2Disks ==
    { <<>>,
      <<FsRoot(BuildDirectory2, "dir")>>
          \o FsEntries(WorkspaceFolder \o Slash \o BuildDirectory2, ItemGcn),
      <<FsRoot(BuildDirectory2, "file")>> }

FsDisks == {d1 \o d2 : d1 \in BuildDisks, d2 \in Build2Disks}

FsConfigurations ==
    { <<>>, <<DefaultBuildDirectory>>, <<BuildDirectory2>>,
      <<DefaultBuildDirectory, BuildDirectory2>>,
      <<BuildDirectory2, DefaultBuildDirectory>> }

\* the compiler was constructed under the default configuration; the
\* configuration and the disk are what they are when the scan starts
FsInit ==
    /\ fs \in FsDisks
    /\ configuration \in FsConfigurations
    /\ buildDirectories = <<DefaultBuildDirectory>>
    /\ assemblyFiles = <<>>
    /\ content = <<>>
    /\ sourceFiles = <<>>
    /\ lineMapping = emptyMapping
    /\ location = Undefined
    /\ asmLines = <<>>
    /\ query = Undefined
    /\ compilerFiles = <<>>
    /\ kernels = <<>>
    /\ pc = "configured"
    /\ NothingShown
    /\ NoSession
    /\ NoTimers

\* findAssemblyFiles(workspaceFolder)
FindAssemblyFiles ==
    /\ pc = "configured"
    /\ buildDirectories' = updateBuildDirectories(configuration)
    /\ assemblyFiles' = findAssemblyFiles(fs, WorkspaceFolder, configuration)
    /\ pc' = "listed"
    /\ UNCHANGED <<content, sourceFiles, lineMapping, location, asmLines, query,
                   compilerFiles, kernels>>
    /\ UNCHANGED <<configuration, fs, viewVars, sessionVars, timerVars>>

FsNext == FindAssemblyFiles

FsSpec == FsInit /\ [][FsNext]_vars

---------------------------------------------------------------------------
(* The session of an open panel.  The workspace has the roots build and    *)
(* build2; each holds one assembly file: a build of a.hip, a later build   *)
(* of it (one instruction longer) or a build of b.hip.  Handlers           *)
(* started by the user run up to their next await and are resumed in any   *)
(* order; between them the root build can be built anew.                   *)

MaxRequests == 2

\* a build of a.hip, a later build of it, a build of b.hip
SessionTextA ==
    <<File1TwoStrings, SectionText, GloblKernel, LocText(1, 5, 1), InstrLine>>
SessionTextA2 ==
    <<File1TwoStrings, SectionText, GloblKernel, LocText(1, 5, 1), InstrLine,
      InstrLine>>
SessionTextB ==
    <<File2TwoStrings, SectionText, GloblKernelB, LocText(2, 5, 1), InstrLine>>

\* what the roots build and build2 hold when the panel is opened: an older
\* and a newer build of a.hip, two builds of the same time, a build of each
\* document
BuildOf(lines, mtime) == [lines |-> lines, mtime |-> mtime]

SessionBuilds ==
    { <<BuildOf(SessionTextA, 1), BuildOf(SessionTextA2, 2)>>,
      <<BuildOf(SessionTextA, 2), BuildOf(SessionTextA, 2)>>,
      <<BuildOf(SessionTextA, 2), BuildOf(SessionTextB, 1)>> }

\* a later build, newer than all of them
LaterBuild == BuildOf(SessionTextA2, 3)

SessionRoots == <<DefaultBuildDirectory, BuildDirectory2>>

\* the entries of a root and of the assembly file it holds
RootEntries(root, build) ==
    <<FsRoot(root, "dir"),
      [dir |-> WorkspaceFolder \o Slash \o root, name |-> GcnName,
       kind |-> "file", mtime |-> build.mtime, lines |-> build.lines,
       fails |-> "none"]>>

SessionDisk(build1, build2) ==
    RootEntries(SessionRoots[1], build1) \o RootEntries(SessionRoots[2], build2)

SessionDisks == {SessionDisk(builds[1], builds[2]) : builds \in SessionBuilds}

\* the disk after root n has been built anew
rebuilt(files, n) ==
    [k \in 1..Len(files) |->
        IF files[k].kind = "file"
           /\ files[k].dir = WorkspaceFolder \o Slash \o SessionRoots[n]
        THEN [files[k] EXCEPT !.lines = LaterBuild.lines,
                              !.mtime = LaterBuild.mtime]
        ELSE files[k]]

Documents == {PathA, PathB}

\* the editor line of the cursor when the show-assembly command is run
CursorLines == {4}

\* c++filt is missing, prints nothing, prints a name
ToolRuns ==
    { [failed |-> TRUE, stdout |-> <<>>],
      [failed |-> FALSE, stdout |-> <<>>],
      [failed |-> FALSE, stdout |-> <<" ", "k", "(", ")", "\n">>] }

\* a handler waiting at an await: what it was called with and the values it
\* holds in its locals.  The calls of updateAssembly and selectMatch have
\* the number of their issue as id.  A compare request has id 0: its quick
\* pick is the only one open, so there is one such request at a time
request(id, kind, stage, document, sourceLine) ==
    [id |-> id, kind |-> kind, stage |-> stage, document |-> document,
     sourceLine |-> sourceLine, kernels |-> <<>>, kernelIndex |-> -1,
     index1 |-> -1, candidates |-> {}, diff |-> Undefined]

\* updateAssembly(document, sourceLine) up to the await of the scan;
\* sourceLine is -1 when the argument is omitted
startScan(document, sourceLine) ==
    /\ issued < MaxRequests
    /\ issued' = issued + 1
    /\ currentDocument' = document
    /\ buildDirectories' = updateBuildDirectories(configuration)
    /\ requests' = requests
          \cup {request(issued + 1, "scan", "scanning", document, sourceLine)}

\* the constructor has called updateAssembly(document), which waits for the
\* scan
SessionInit ==
    /\ fs \in SessionDisks
    /\ configuration = SessionRoots
    /\ buildDirectories = updateBuildDirectories(configuration)
    /\ assemblyFiles = <<>>
    /\ content = <<>>
    /\ sourceFiles = <<>>
    /\ lineMapping = emptyMapping
    /\ location = Undefined
    /\ asmLines = <<>>
    /\ query = Undefined
    /\ compilerFiles = <<>>
    /\ kernels = <<>>
    /\ pc = "open"
    /\ NothingShown
    /\ currentDocument = PathA
    /\ requests = {request(1, "scan", "scanning", PathA, -1)}
    /\ issued = 1
    /\ rejections = {}
    /\ NoTimers

sessionFrame ==
    UNCHANGED <<content, sourceFiles, query, compilerFiles, kernels, pc,
                configuration, timerVars>>

\* case 'refresh': updateAssembly(this._currentDocument)
Refresh ==
    /\ html # Undefined /\ html.view = "assembly"
    /\ startScan(currentDocument, -1)
    /\ sessionFrame
    /\ UNCHANGED <<lineMapping, location, asmLines, fs, assemblyFiles, viewVars,
                   rejections>>

\* case 'exitDiff': this._diffState = undefined; updateAssembly(...)
ExitDiff ==
    /\ html # Undefined /\ html.view = "diff"
    /\ diffState' = Undefined
    /\ startScan(currentDocument, -1)
    /\ sessionFrame
    /\ UNCHANGED <<lineMapping, location, asmLines, fs, assemblyFiles, matches,
                   selectedMatch, html, rejections>>

\* the show-assembly command while the panel is open: createOrShow calls
\* currentPanel.updateAssembly(document, sourceLine)
ShowAssembly ==
    /\ \E document \in Documents, sourceLine \in CursorLines :
          startScan(document, sourceLine)
    /\ sessionFrame
    /\ UNCHANGED <<lineMapping, location, asmLines, fs, assemblyFiles, viewVars,
                   rejections>>

\* the scan of a waiting updateAssembly resolves: the matches are stored and
\* sorted, a match is selected if none is, and getWebviewContent runs up to
\* its first await; with no match the warning is shown and the handler ends
ScanDone ==
    \E r \in requests :
        /\ r.stage = "scanning"
        /\ assemblyFiles' = findAssemblyFiles(fs, WorkspaceFolder, configuration)
        /\ \E found \in
                 {newObjects(
                      findMatchingAssemblies(
                          assemblyFiles', basename(r.document),
                          IF r.sourceLine < 0 THEN 0 ELSE r.sourceLine),
                      r.id)} :
               IF Len(found) = 0
               THEN /\ matches' = found
                    /\ html' = getNoAssemblyContent
                    /\ requests' = requests \ {r}
                    /\ UNCHANGED <<selectedMatch, lineMapping>>
               ELSE \E sorted \in sortOutcomes(fs, found) :
                      LET selection ==
                              selectDefault(selectedMatch, lineMapping, sorted)
                          fileGroups == groupMatchesByFile(sorted, Len(sorted))
                      IN  /\ matches' = sorted
                          /\ selectedMatch' = selection.selectedMatch
                          /\ lineMapping' = selection.lineMapping
                          /\ \E kernelList \in
                                   sortOutcomes(fs, kernelsOfSelectedFile(
                                                        fileGroups, selectedMatch')) :
                                requests' = (requests \ {r}) \cup
                                    {[r EXCEPT
                                        !.stage = "rendering",
                                        !.kernels = kernelList,
                                        !.kernelIndex =
                                            findIndex(kernelList, selectedMatch')]}
                          /\ UNCHANGED html
        /\ sessionFrame
        /\ UNCHANGED <<location, asmLines, fs, buildDirectories, diffState,
                       issued, currentDocument, rejections>>

\* the awaits of getWebviewContent resolve: the view is rendered from what
\* the panel holds now; updateAssembly then highlights the line it was given
Render ==
    \E r \in requests :
        /\ r.stage = "rendering"
        /\ \E shown \in {getWebviewContent(fs, matches, selectedMatch)} :
              \E run \in ToolRuns :
                 html' = renderAssembly(shown, selectedMatch, r.kernels,
                                        r.kernelIndex, run)
        /\ asmLines' = IF r.kind = "scan" /\ r.sourceLine >= 0
                          /\ selectedMatch # Undefined
                       THEN getAssemblyLines(lineMapping, r.document, r.sourceLine)
                       ELSE asmLines
        /\ requests' = requests \ {r}
        /\ sessionFrame
        /\ UNCHANGED <<lineMapping, location, fs, buildDirectories,
                       assemblyFiles, matches, selectedMatch, diffState, issued,
                       currentDocument, rejections>>

\* case 'selectMatch' sent by the selectors of the view shown: selectMatch
\* up to the await of getWebviewContent
SelectKernel ==
    /\ html # Undefined /\ html.view = "assembly"
    /\ issued < MaxRequests
    /\ \E fileIndex \in {0}, kernelIndex \in 0..(Len(html.kernels) - 1) :
          LET fileGroups == groupMatchesByFile(matches, Len(matches))
          IN  /\ fileIndex < Len(fileGroups)
              /\ kernelIndex < Len(fileGroups[fileIndex + 1].value)
              /\ selectedMatch' = fileGroups[fileIndex + 1].value[kernelIndex + 1]
              /\ lineMapping' = mappingOfMatch(selectedMatch')
              /\ \E kernelList \in
                       sortOutcomes(fs, kernelsOfSelectedFile(fileGroups,
                                                              selectedMatch')) :
                    requests' = requests \cup
                        {[request(issued + 1, "select", "rendering",
                                  currentDocument, -1)
                            EXCEPT !.kernels = kernelList,
                                   !.kernelIndex =
                                       findIndex(kernelList, selectedMatch')]}
    /\ issued' = issued + 1
    /\ sessionFrame
    /\ UNCHANGED <<location, asmLines, fs, buildDirectories, assemblyFiles,
                   matches, diffState, html, currentDocument, rejections>>

\* case 'compare' sent by the button of the view shown: showComparePicker up
\* to the await of the quick pick
ShowComparePicker ==
    /\ html # Undefined /\ html.view = "assembly" /\ html.showCompareButton
    /\ \A r \in requests : r.kind # "compare"
    /\ selectedMatch # Undefined
    /\ compatibleMatches(matches, selectedMatch) # {}
    /\ requests' = requests \cup
          {[request(0, "compare", "picking", currentDocument, -1)
              EXCEPT !.index1 = findIndex(matches, selectedMatch),
                     !.candidates = compatibleMatches(matches, selectedMatch)]}
    /\ sessionFrame
    /\ UNCHANGED <<lineMapping, location, asmLines, fs, buildDirectories,
                   assemblyFiles, viewVars, issued, currentDocument,
                   rejections>>

\* the user picks a version: compareMatches(currentIndex, selected.index)
\* reads both records from the list the panel holds now, and throws at its
\* log line when one of them is undefined
PickVersion ==
    \E r \in requests :
        /\ r.stage = "picking"
        /\ \E index2 \in r.candidates :
              IF r.index1 < 0 \/ r.index1 >= Len(matches) \/ index2 >= Len(matches)
              THEN /\ rejections' = rejections \cup {"compare"}
                   /\ requests' = requests \ {r}
                   /\ UNCHANGED diffState
              ELSE /\ diffState' = [match1 |-> matches[r.index1 + 1],
                                    match2 |-> matches[index2 + 1],
                                    index1 |-> r.index1, index2 |-> index2]
                   /\ requests' = (requests \ {r}) \cup
                         {[r EXCEPT !.stage = "diffing", !.diff = diffState']}
                   /\ UNCHANGED rejections
        /\ sessionFrame
        /\ UNCHANGED <<lineMapping, location, asmLines, fs, buildDirectories,
                       assemblyFiles, matches, selectedMatch, html, issued,
                       currentDocument>>

\* the user closes the quick pick
DismissPicker ==
    \E r \in requests :
        /\ r.stage = "picking"
        /\ requests' = requests \ {r}
        /\ sessionFrame
        /\ UNCHANGED <<lineMapping, location, asmLines, fs, buildDirectories,
                       assemblyFiles, viewVars, issued, currentDocument,
                       rejections>>

\* the await of getDiffViewContent resolves: the diff is shown
RenderDiff ==
    \E r \in requests :
        /\ r.stage = "diffing"
        /\ \E shown \in {getDiffViewContent(r.diff)} :
              \E run \in ToolRuns : html' = renderDiff(shown, r.diff, run)
        /\ requests' = requests \ {r}
        /\ sessionFrame
        /\ UNCHANGED <<lineMapping, location, asmLines, fs, buildDirectories,
                       assemblyFiles, matches, selectedMatch, diffState, issued,
                       currentDocument, rejections>>

\* the root build is built anew while no handler of the panel is waiting
Rebuild ==
    /\ requests = {}
    /\ fs' = rebuilt(fs, 1)
    /\ fs' # fs
    /\ sessionFrame
    /\ UNCHANGED <<lineMapping, location, asmLines, buildDirectories,
                   assemblyFiles, viewVars, sessionVars, timerVars>>

SessionNext ==
    \/ Refresh \/ ExitDiff \/ ShowAssembly \/ ScanDone \/ Render
    \/ SelectKernel \/ ShowComparePicker \/ PickVersion \/ DismissPicker
    \/ RenderDiff \/ Rebuild

SessionSpec == SessionInit /\ [][SessionNext]_vars

---------------------------------------------------------------------------
(* Two calls of findMatchingAssemblies in a row, with the same arguments,  *)
(* on a disk and under a configuration that do not change.                 *)

RescanDisks == SessionDisks \cup {rebuilt(files, 1) : files \in SessionDisks}

RescanQueries ==
    {[sourceFile |-> f, sourceLine |-> l] : f \in {NameA, NameB}, l \in {0, 5}}

\* a list that kept what an earlier call had put in it
freshList_kept(previous) == previous

\* const allAssemblyFiles: AssemblyFile[] = [] and const matches:
\* AssemblyMatch[] = []: each call fills lists of its own
freshList(previous) == <<>>

\* the compiler was constructed under the default configuration; nothing
\* has been scanned
RescanInit ==
    /\ fs \in RescanDisks
    /\ configuration \in FsConfigurations
    /\ buildDirectories = <<DefaultBuildDirectory>>
    /\ assemblyFiles = <<>>
    /\ content = <<>>
    /\ sourceFiles = <<>>
    /\ lineMapping = emptyMapping
    /\ location = Undefined
    /\ asmLines = <<>>
    /\ query \in RescanQueries
    /\ compilerFiles = <<>>
    /\ kernels = <<>>
    /\ pc = "asked"
    /\ NothingShown
    /\ NoSession
    /\ NoTimers

\* findMatchingAssemblies(workspaceFolder, sourceFile, sourceLine); matches
\* holds what it returns
Rescan ==
    /\ pc \in {"asked", "once"}
    /\ buildDirectories' = updateBuildDirectories(configuration)
    /\ assemblyFiles' = freshList(assemblyFiles)
          \o findAssemblyFiles(fs, WorkspaceFolder, configuration)
    /\ matches' = freshList(matches)
          \o findMatchingAssemblies(assemblyFiles', query.sourceFile,
                                    query.sourceLine)
    /\ pc' = IF pc = "asked" THEN "once" ELSE "twice"
    /\ UNCHANGED <<content, sourceFiles, lineMapping, location, asmLines, query,
                   compilerFiles, kernels>>
    /\ UNCHANGED <<configuration, fs, selectedMatch, diffState, html,
                   sessionVars, timerVars>>

RescanNext == Rescan

RescanSpec == RescanInit /\ [][RescanNext]_vars

---------------------------------------------------------------------------
(* What the buffer says, read off the vocabulary and not off the walk.     *)

LineIndices == 0..(Len(content) - 1)

IsLocText(text) == \E d \in LocDirectives : d.text = text
LocOfText(text) == CHOOSE d \in LocDirectives : d.text = text

\* the indices of the location directives at or before line i
LocsUpTo(i) == {j \in 0..i : IsLocText(content[j + 1])}
Governed(i) == LocsUpTo(i) # {}
\* the most recent location directive at or before line i
LatestLoc(i) == LocOfText(content[Max(LocsUpTo(i)) + 1])

Resolves(fileId) == mapHas(sourceFiles, fileId)
ResolvedPath(fileId) == normalize(mapGet(sourceFiles, fileId))

\* buildMapping has returned; the lookups that follow change neither the
\* buffer nor the mapping
Built == pc = "built"

InSomeBucket(i) ==
    \E n \in 1..Len(lineMapping.sourceToAsm) :
        \E k \in 1..Len(lineMapping.sourceToAsm[n].value) :
            lineMapping.sourceToAsm[n].value[k] = i

RECURSIVE Ascending(_)
Ascending(S) == IF S = {} THEN <<>> ELSE <<Min(S)>> \o Ascending(S \ {Min(S)})

---------------------------------------------------------------------------
(* C1 *)

\* C1: after buildMapping, every line at or after a location directive whose
\* file-id resolves has the reverse entry (normalized path, line - 1) of the
\* most recent location directive at or before it, whatever kind of line it is.
C1_ReverseLookupIsLatestLocation ==
    Built =>
        \A i \in LineIndices :
            (Governed(i) /\ Resolves(LatestLoc(i).fileId)) =>
                getSourceLocation(lineMapping, i) =
                    [file |-> ResolvedPath(LatestLoc(i).fileId),
                     line |-> LatestLoc(i).line - 1]

---------------------------------------------------------------------------
(* C2 *)

\* the lines the specification excludes from the forward buckets
SpecNonInstruction(line) ==
    LET t == trim(line)
    IN  \/ Len(t) = 0
        \/ startsWith(t, <<".">>)
        \/ startsWith(t, <<";">>)
        \/ startsWith(t, <<"/", "/">>)
        \/ startsWith(t, <<"#">>)
        \/ (endsWith(t, <<":">>) /\ ~includes(t, <<" ">>))

\* C2: after buildMapping no forward bucket holds the index of a blank line,
\* a directive, a comment (';', '//' or '#') or a bare label.
C2_NoNonInstructionInForwardBuckets ==
    Built =>
        \A i \in LineIndices :
            InSomeBucket(i) => ~SpecNonInstruction(content[i + 1])

---------------------------------------------------------------------------
(* C3 *)

FiledAsInstruction(text) == text \in {InstrLine, HashComment}

\* the instruction lines governed by a directive `.loc F n+1 C` whose file-id
\* resolves to path
GovernedBy(path, n) ==
    {i \in LineIndices :
        /\ FiledAsInstruction(content[i + 1])
        /\ Governed(i)
        /\ LatestLoc(i).line = n + 1
        /\ Resolves(LatestLoc(i).fileId)
        /\ ResolvedPath(LatestLoc(i).fileId) = normalize(path)}

---------------------------------------------------------------------------
(* C4 *)

\* the buffer with every location directive's column replaced by c
WithColumn(lines, c) ==
    [k \in 1..Len(lines) |->
        IF IsLocText(lines[k])
        THEN LocText(LocOfText(lines[k]).fileId, LocOfText(lines[k]).line, c)
        ELSE lines[k]]

\* the walk's current file-id and source line
Current(w) == <<w.currentFileId, w.currentSourceLine>>

\* line i holds to C4 when the walk reaches it in state before
LineSetsOrKeeps(before, i) ==
    LET after == buildMappingStep(before, content, sourceFiles, i)
    IN  IF IsLocText(content[i + 1])
        THEN Current(after) = <<LocOfText(content[i + 1]).fileId,
                                LocOfText(content[i + 1]).line - 1>>
        ELSE Current(after) = Current(before)

\* C4: a directive `.loc F L C` sets the walk's file-id to F and its source
\* line to L - 1; any other line, a `.loc` without its column included, leaves
\* both unchanged; the column changes neither map.
C4_LocSetsFileAndLine ==
    Built =>
        /\ \A i \in LineIndices :
              LineSetsOrKeeps(buildMappingLoop(content, sourceFiles, i), i)
        /\ buildMapping(WithColumn(content, 12), sourceFiles) = lineMapping

C4_Witness ==
    /\ Built
    /\ \E i, j \in LineIndices :
          /\ i < j
          /\ content[i + 1] = LocText(2, 11, 7)
          /\ content[j + 1] = LocNoColumn
          /\ getSourceLocation(lineMapping, j) = [file |-> PathB, line |-> 10]

---------------------------------------------------------------------------
(* C5 *)

AllLocs == LocsUpTo(Len(content) - 1)

\* C5: a line before the first location directive has no reverse entry and is
\* in no forward bucket; without location directives both maps are empty.
C5_NothingMappedBeforeFirstLoc ==
    Built =>
        /\ \A i \in LineIndices :
              ~Governed(i) =>
                  /\ getSourceLocation(lineMapping, i) = Undefined
                  /\ ~InSomeBucket(i)
        /\ AllLocs = {} => lineMapping = emptyMapping

C5_Witness ==
    /\ Built
    /\ \E i, j \in LineIndices :
          /\ i < j
          /\ content[i + 1] = InstrLine
          /\ ~Governed(i)
          /\ content[j + 1] = InstrLine
          /\ InSomeBucket(j)

---------------------------------------------------------------------------
(* C6 *)

\* C6: while the latest location directive names a file-id missing from the
\* file table, lines get no reverse entry and enter no forward bucket, even
\* after an earlier resolvable directive; a mapped line is always governed by
\* a directive whose file-id resolves.
C6_UnresolvedFileIdMapsNothing ==
    Built =>
        \A i \in LineIndices :
            /\ (Governed(i) /\ ~Resolves(LatestLoc(i).fileId)) =>
                  /\ getSourceLocation(lineMapping, i) = Undefined
                  /\ ~InSomeBucket(i)
            /\ (getSourceLocation(lineMapping, i) # Undefined \/ InSomeBucket(i)) =>
                  (Governed(i) /\ Resolves(LatestLoc(i).fileId))

C6_Witness ==
    /\ Built
    /\ \E i, j, k \in LineIndices :
          /\ i < j /\ j < k
          /\ InSomeBucket(i)
          /\ content[j + 1] = InstrLine
          /\ Governed(j)
          /\ ~Resolves(LatestLoc(j).fileId)
          /\ getSourceLocation(lineMapping, j) = Undefined
          /\ InSomeBucket(k)

---------------------------------------------------------------------------
(* What a scanned buffer says, read off the vocabulary. *)

Scanned == pc = "scanned"

IsFileText(text) == \E d \in FileDirectives : d.text = text
FileOfText(text) == CHOOSE d \in FileDirectives : d.text = text

\* the indices of the .file directives declaring id
DeclaredAt(id) ==
    {j \in LineIndices :
        IsFileText(content[j + 1]) /\ FileOfText(content[j + 1]).fileId = id}

DeclaredIds == {id \in 0..9 : DeclaredAt(id) # {}}

\* the path of the last directive declaring id
LastDeclared(id) == FileOfText(content[Max(DeclaredAt(id)) + 1]).path

TableHoldsLastNormalizedPaths(table) ==
    /\ mapKeys(table) = DeclaredIds
    /\ \A id \in DeclaredIds : mapGet(table, id) = LastDeclared(id)

IsSectionText(i) == content[i + 1] = SectionText

IsGloblText(i) == \E g \in GloblDirectives : g.text = content[i + 1]
GloblOfText(i) == CHOOSE g \in GloblDirectives : g.text = content[i + 1]
ExportsKernel(i) == IsGloblText(i) /\ GloblOfText(i).kernel

\* the region starts the specification describes
Boundaries ==
    IF \E i \in LineIndices : IsSectionText(i)
    THEN {i \in LineIndices : IsSectionText(i)}
    ELSE {i \in LineIndices : ExportsKernel(i)}

\* the line before the next boundary, or the last line of the buffer
BoundaryEnd(s) ==
    LET later == {t \in Boundaries : t > s}
    IN  IF later = {} THEN Len(content) - 1 ELSE Min(later) - 1

\* the kernel exports among the first 21 lines of the region starting at s
NamingLines(s) ==
    LET end == BoundaryEnd(s)
    IN  {j \in s..(s + 20) : j <= end /\ ExportsKernel(j)}

KernelIndices == 1..Len(kernels)

---------------------------------------------------------------------------
(* C7 *)

\* C7: the file table of the compiler (extractSourceFiles) and the file table
\* of the panel (extractSourceFilesFromAssembly) both map exactly the declared
\* ids, each to the normalized path (normalized join for the two-string form)
\* of the last .file directive carrying the id.
C7_FileTablesHoldLastNormalizedPaths ==
    /\ pc \in {"scanned", "built"} => TableHoldsLastNormalizedPaths(compilerFiles)
    /\ pc = "built" => TableHoldsLastNormalizedPaths(sourceFiles)

\* the compiler's table alone
CompilerTableHoldsLastNormalizedPaths ==
    pc \in {"scanned", "built"} => TableHoldsLastNormalizedPaths(compilerFiles)

---------------------------------------------------------------------------
(* C8 *)

\* C8: the kernels of a buffer have startLine <= endLine, are ordered and
\* disjoint, and are contiguous from the first boundary to the last line of
\* the buffer: each endLine + 1 is the next kernel's startLine and the last
\* kernel ends at the last line.
C8_KernelsContiguousToEndOfBuffer ==
    Scanned =>
        /\ \A k \in KernelIndices : kernels[k].startLine <= kernels[k].endLine
        /\ \A k \in KernelIndices : k < Len(kernels) =>
              kernels[k].endLine + 1 = kernels[k + 1].startLine
        /\ Len(kernels) > 0 =>
              /\ kernels[1].startLine = Min(Boundaries)
              /\ kernels[Len(kernels)].endLine = Len(content) - 1

\* C8: the kernels of a buffer have startLine <= endLine, are ordered by
\* startLine and pairwise disjoint, and each one ends on the line before the
\* next boundary (of a returned or of a dropped region) or on the last line
\* of the buffer; when no region is dropped they are contiguous from the
\* first boundary to the last line.
C8_KernelsOrderedDisjointUpToNextBoundary ==
    Scanned =>
        /\ \A k \in KernelIndices : kernels[k].startLine <= kernels[k].endLine
        /\ \A k, l \in KernelIndices : k < l =>
              kernels[k].endLine < kernels[l].startLine
        /\ \A k \in KernelIndices :
              /\ kernels[k].startLine \in Boundaries
              /\ kernels[k].endLine = BoundaryEnd(kernels[k].startLine)
        /\ (Len(kernels) > 0 /\ Len(kernels) = Cardinality(Boundaries)) =>
              /\ \A k \in KernelIndices : k < Len(kernels) =>
                    kernels[k].endLine + 1 = kernels[k + 1].startLine
              /\ kernels[1].startLine = Min(Boundaries)
              /\ kernels[Len(kernels)].endLine = Len(content) - 1

\* two kernels around a dropped region
C8_Witness ==
    /\ Scanned
    /\ Len(kernels) = 2
    /\ kernels[1].endLine + 1 < kernels[2].startLine
    /\ kernels[1].endLine + 1 \in Boundaries
    /\ kernels[2].endLine = Len(content) - 1

---------------------------------------------------------------------------
(* C9 *)

---------------------------------------------------------------------------
(* C10 *)

\* C10: the region starts are the .section .text. lines when there is one,
\* the kernel-exporting .globl lines only when there is none; every kernel
\* starts on one of them and a buffer with neither has no kernels.
C10_StartsAreSectionsElseKernelExports ==
    Scanned =>
        /\ sectionLines(content) = Ascending(Boundaries)
        /\ \A k \in KernelIndices : kernels[k].startLine \in Boundaries
        /\ Boundaries = {} => Len(kernels) = 0

\* a .section .text. line and two kernel exports: one region
C10_Witness ==
    /\ Scanned
    /\ \E i, j, k \in LineIndices :
          /\ IsSectionText(i)
          /\ i < j /\ j < k
          /\ ExportsKernel(j) /\ ExportsKernel(k)
          /\ Len(kernels) = 1
          /\ kernels[1].startLine = i

---------------------------------------------------------------------------
(* What a resolved buffer and its query say, read off the vocabulary. *)

Matched == pc = "matched"

\* the header the buffer starts with: its .file lines
HeaderOf ==
    CHOOSE h \in MatchHeaders :
        /\ Len(h.lines) <= Len(content)
        /\ SubSeq(content, 1, Len(h.lines)) = h.lines
        /\ Len(content) > Len(h.lines) =>
              ~IsFileText(content[Len(h.lines) + 1])

\* the basename of the queried file
QueryName == (CHOOSE f \in QueryFiles : f.path = query.sourceFile).name

\* the places, in the table's insertion order, of the entries of that name
NamedEntries ==
    {n \in 1..Len(HeaderOf.entries) : HeaderOf.entries[n].name = QueryName}

\* the file-id the query is resolved to
FirstNamedId == HeaderOf.entries[Min(NamedEntries)].fileId

\* the regions that are kernels: those with a kernel export in their window
KernelRegions == {s \in Boundaries : NamingLines(s) # {}}

IsMatchLoc(i) == \E d \in MatchLocs : d.text = content[i + 1]
MatchLocOf(i) == CHOOSE d \in MatchLocs : d.text = content[i + 1]
\* the most recent location directive at or before line i
MatchLocsUpTo(i) == {j \in 0..i : IsMatchLoc(j)}
LatestMatchLoc(i) == MatchLocOf(Max(MatchLocsUpTo(i)))

MatchIndices == 1..Len(matches)

\* the kernels of a list of matches, without their lines
KernelsOf(found) ==
    [k \in 1..Len(found) |->
        [kernelSymbol |-> found[k].kernelSymbol,
         startLine |-> found[k].startLine,
         endLine |-> found[k].endLine]]

\* the elements of a sequence
---------------------------------------------------------------------------
(* C11 *)

\* C11: findMatchingAssemblies returns no record when the file table has no
\* entry of the queried basename, and otherwise one record for each kernel
\* region of the buffer, in order; the file-id it resolves the query to is
\* the first entry of that basename in insertion order, and every line of a
\* record is governed by a location directive of that file-id.
C11_OneRecordPerRegionOfFirstNamedEntry ==
    Matched =>
        IF NamedEntries = {}
        THEN Len(matches) = 0
        ELSE /\ KernelsOf(matches) =
                    [k \in 1..Len(kernels) |->
                        [kernelSymbol |-> kernels[k].symbol,
                         startLine |-> kernels[k].startLine,
                         endLine |-> kernels[k].endLine]]
             /\ {matches[k].startLine : k \in MatchIndices} = KernelRegions
             /\ Len(matches) = Cardinality(KernelRegions)
             /\ findTargetFileId(compilerFiles, basename(query.sourceFile))
                    = FirstNamedId
             /\ \A k \in MatchIndices :
                    \A i \in Range(matches[k].assemblyLines) :
                        /\ MatchLocsUpTo(i) # {}
                        /\ LatestMatchLoc(i).fileId = FirstNamedId

\* two entries of the queried name, the first inserted with the higher id,
\* and a record with lines
C11_Witness ==
    /\ Matched
    /\ Cardinality(NamedEntries) = 2
    /\ FirstNamedId = 2
    /\ Len(matches) > 0
    /\ Len(matches[1].assemblyLines) > 0

---------------------------------------------------------------------------
(* C12 *)

\* C12: a queried line 0 gives every record an empty list of lines, and the
\* kernels returned for a query do not depend on its line: a region is
\* returned whether or not an instruction maps to the queried line.
C12_KernelsReturnedWhateverTheLine ==
    Matched =>
        /\ query.sourceLine = 0 =>
              \A k \in MatchIndices : matches[k].assemblyLines = <<>>
        /\ \A l \in QueryLines \cup {6} :
              KernelsOf(findMatchingAssemblies(assemblyFiles, query.sourceFile, l))
                  = KernelsOf(matches)
        /\ NamedEntries # {} => Len(matches) = Cardinality(KernelRegions)

\* a query of line 0 on a kernel whose instruction is located at line 0
C12_Witness ==
    /\ Matched
    /\ content = LineZeroBuffer
    /\ query.sourceLine = 0
    /\ Len(matches) = 1
    /\ matches[1].assemblyLines = <<>>

---------------------------------------------------------------------------
(* C13 *)

\* C13: on the buffer with one kernel region, `.file 1 "/p" "a.hip"` and
\* `.loc 1 5 1` immediately before a store, the query (a.hip, 5) returns
\* exactly one record, whose lines are exactly the index of the store.
C13_EndToEndStoreLine ==
    (Matched /\ content = EndToEndBuffer /\ query.sourceFile = NameA
        /\ query.sourceLine = 5) =>
        /\ Len(matches) = 1
        /\ \E i \in LineIndices :
              /\ content[i + 1] = StoreLine
              /\ matches[1].assemblyLines = <<i>>

C13_Witness ==
    /\ Matched
    /\ content = EndToEndBuffer
    /\ query.sourceFile = NameA
    /\ query.sourceLine = 5
    /\ Len(matches) = 1
    /\ matches[1].assemblyLines = <<5>>

---------------------------------------------------------------------------
(* C14 *)

\* C14: for a queried line L > 0, the lines of every record are the forward
\* list that buildMapping, run on the same buffer and file table, holds for
\* (path of the matched file-id, L - 1).
C14_ResolverAgreesWithBuildMapping ==
    (Matched /\ query.sourceLine > 0) =>
        \A k \in MatchIndices :
            matches[k].assemblyLines =
                getAssemblyLines(
                    buildMapping(content, compilerFiles),
                    mapGet(compilerFiles,
                           findTargetFileId(compilerFiles,
                                            basename(query.sourceFile))),
                    query.sourceLine - 1)

---------------------------------------------------------------------------
(* C15 *)

\* C15: every line of a record lies within the record's kernel span.
C15_LinesWithinKernelSpan ==
    Matched =>
        \A k \in MatchIndices :
            \A i \in Range(matches[k].assemblyLines) :
                matches[k].startLine <= i /\ i <= matches[k].endLine

---------------------------------------------------------------------------
(* What the panel holds, read off the match list and the disk.             *)

AssemblyShown == pc = "shown" /\ html.view = "assembly"

\* the modification time the disk has for a path, 0 for a path it lacks
DiskTime(p) ==
    IF \E e \in Range(fs) : e.dir \o Slash \o e.name = p
    THEN (CHOOSE e \in Range(fs) : e.dir \o Slash \o e.name = p).mtime
    ELSE 0

\* the places of the match list that hold the selected record's symbol
SameSymbol ==
    {n \in 1..Len(matches) :
        matches[n].kernelSymbol = selectedMatch.kernelSymbol}

\* the places of SameSymbol no other place of it is newer than
Newest ==
    {n \in SameSymbol :
        \A k \in SameSymbol :
            DiskTime(matches[k].assemblyFile) <= DiskTime(matches[n].assemblyFile)}

---------------------------------------------------------------------------
(* C16 *)

\* C16: when several match records hold the selected record's symbol, the
\* root reported as latest is that of one of them whose file has the greatest
\* modification time, and the selected record is flagged outdated exactly
\* when its assembly file is not that record's file; when the other root
\* holds the same symbol in a newer file the selected record is flagged and
\* that root is reported; a record that alone holds its symbol is not flagged.
C16_OutdatedIffNotTheNewestFile ==
    AssemblyShown =>
        /\ Cardinality(SameSymbol) > 1 =>
              \E n \in Newest :
                  /\ html.latestBuildDir = matches[n].buildDirectory
                  /\ html.outdatedWarning
                        <=> (selectedMatch.assemblyFile # matches[n].assemblyFile)
        /\ \A n \in SameSymbol :
              DiskTime(matches[n].assemblyFile)
                    > DiskTime(selectedMatch.assemblyFile) =>
                  /\ html.outdatedWarning
                  /\ html.latestBuildDir = matches[n].buildDirectory
        /\ Cardinality(SameSymbol) = 1 => ~html.outdatedWarning

\* the older of two builds of kernel was selected by hand: it is flagged and
\* build2 is reported
C16_Witness ==
    /\ AssemblyShown
    /\ selectedMatch # matches[1]
    /\ selectedMatch.buildDirectory = DefaultBuildDirectory
    /\ Cardinality(SameSymbol) = 2
    /\ DiskTime(selectedMatch.assemblyFile) = 1
    /\ \E n \in SameSymbol : DiskTime(matches[n].assemblyFile) = 2
    /\ html.outdatedWarning
    /\ html.latestBuildDir = BuildDirectory2

---------------------------------------------------------------------------
(* What the diff view holds, read off the two compared records.            *)

DiffShown == pc = "diff" /\ html.view = "diff"

\* the number of lines of the region of a record
RegionLength(match) == match.endLine - match.startLine + 1

\* line startLine + i of the buffer of a record when i is within its region,
\* and the empty string otherwise
RegionLine(match, i) ==
    IF i < RegionLength(match)
    THEN match.assemblyContent[match.startLine + i + 1]
    ELSE <<>>

Positions == 0..(Len(html.rows) - 1)

Flagged(side) == side.diffClass = "diff-changed"

---------------------------------------------------------------------------
(* C17 *)

\* C17: the diff of two regions of lengths m and n has max(m, n) positions;
\* position i of a side holds line startLine + i of that side's buffer, and
\* carries that line number, when i is within the side's region, and holds
\* the empty string otherwise.
C17_DiffPadsShorterRegion ==
    DiffShown =>
        /\ Len(html.rows) = Max({RegionLength(diffState.match1),
                                 RegionLength(diffState.match2)})
        /\ \A i \in Positions :
              /\ html.rows[i + 1].left.line = RegionLine(diffState.match1, i)
              /\ html.rows[i + 1].right.line = RegionLine(diffState.match2, i)
              /\ html.rows[i + 1].left.dataLine = diffState.match1.startLine + i
              /\ html.rows[i + 1].right.dataLine = diffState.match2.startLine + i

\* a region of five lines on the left of one of eight lines
C17_Witness ==
    /\ DiffShown
    /\ RegionLength(diffState.match1) = 5
    /\ RegionLength(diffState.match2) = 8
    /\ Len(html.rows) = 8
    /\ html.rows[5].left.line = InstrLine
    /\ html.rows[8].left.line = <<>>
    /\ html.rows[8].right.line = LabelLine

---------------------------------------------------------------------------
(* C18 *)

\* C18: at every position both sides carry the changed flag or neither does,
\* and they carry it exactly when the two padded lines differ as strings;
\* when the regions have five and eight lines, the positions 5..7 at which
\* the longer region's line is not empty are flagged; when the two regions
\* hold the same lines nothing is flagged.
C18_ChangedIffLinesDiffer ==
    DiffShown =>
        LET match1 == diffState.match1
            match2 == diffState.match2
        IN  /\ \A i \in Positions :
                  /\ Flagged(html.rows[i + 1].left) <=> Flagged(html.rows[i + 1].right)
                  /\ Flagged(html.rows[i + 1].left)
                        <=> (RegionLine(match1, i) # RegionLine(match2, i))
            /\ \A i \in 5..7 :
                  /\ RegionLength(match1) = 5 /\ RegionLength(match2) = 8
                     /\ RegionLine(match2, i) # <<>>
                        => Flagged(html.rows[i + 1].left)
                  /\ RegionLength(match1) = 8 /\ RegionLength(match2) = 5
                     /\ RegionLine(match1, i) # <<>>
                        => Flagged(html.rows[i + 1].right)
            /\ (\A i \in Positions : RegionLine(match1, i) = RegionLine(match2, i))
                  => \A i \in Positions : ~Flagged(html.rows[i + 1].left)

\* five lines against eight: the line that differs by a trailing blank and
\* the positions 6 and 7 are flagged, position 5, where the longer region has
\* an empty line, is not
C18_Witness ==
    /\ DiffShown
    /\ RegionLength(diffState.match1) = 5
    /\ RegionLength(diffState.match2) = 8
    /\ ~Flagged(html.rows[1].left)
    /\ html.rows[3].left.line = InstrLine
    /\ html.rows[3].right.line = InstrSpaced
    /\ Flagged(html.rows[3].left)
    /\ ~Flagged(html.rows[6].left)
    /\ Flagged(html.rows[7].left)
    /\ Flagged(html.rows[8].right)

---------------------------------------------------------------------------
(* What a scan should find, read off the disk.                             *)

Listed == pc = "listed"

EntryPath(e) == e.dir \o Slash \o e.name
RootPath(root) == WorkspaceFolder \o Slash \o root

HasPrefix(p, prefix) ==
    Len(prefix) <= Len(p) /\ SubSeq(p, 1, Len(prefix)) = prefix

RootExists(root) == \E e \in Range(fs) : EntryPath(e) = RootPath(root)

\* e is at some depth under the root
Below(e, root) ==
    e.dir = RootPath(root) \/ HasPrefix(e.dir, RootPath(root) \o Slash)

\* the directories from the root down to the one holding e
Ancestors(e, root) ==
    {a \in Range(fs) :
        /\ EntryPath(a) = RootPath(root) \/ Below(a, root)
        /\ EntryPath(a) = e.dir \/ HasPrefix(e.dir, EntryPath(a) \o Slash)}

\* a regular file under the root named by the convention
Candidate(e, root) ==
    Below(e, root) /\ e.kind = "file" /\ e.name \in ConventionNames

\* a candidate that can be read, in directories that can be listed
Usable(e, root) ==
    /\ Candidate(e, root)
    /\ e.fails = "none"
    /\ \A a \in Ancestors(e, root) : a.kind = "dir" /\ a.fails = "none"

KernelsOfText(lines) == (CHOOSE t \in FsTexts : t.lines = lines).kernels

\* every kernel of e is in the result, tagged with the root
Contributes(e, root) ==
    \A k \in KernelsOfText(e.lines) :
        \E n \in 1..Len(assemblyFiles) :
            /\ assemblyFiles[n].assemblyPath = EntryPath(e)
            /\ assemblyFiles[n].assemblyContent = e.lines
            /\ assemblyFiles[n].kernelSymbol = k.kernelSymbol
            /\ assemblyFiles[n].startLine = k.startLine
            /\ assemblyFiles[n].endLine = k.endLine
            /\ assemblyFiles[n].buildDirectory = root

\* every usable candidate under an existing root that is scanned contributes
UsableFilesContribute ==
    \A root \in Range(buildDirectories) :
        RootExists(root) =>
            \A e \in Range(fs) : Usable(e, root) => Contributes(e, root)

\* the place of a root in the list scanned
RootIndex(root) == Min({n \in 1..Len(buildDirectories) : buildDirectories[n] = root})

\* the roots scanned are the configured ones, build for an empty list; every
\* record is a kernel of a candidate under an existing root, tagged with that
\* root; the records follow the order of the roots
ScanIsSoundAndOrdered ==
    /\ buildDirectories
          = IF configuration = <<>> THEN <<DefaultBuildDirectory>> ELSE configuration
    /\ \A n \in 1..Len(assemblyFiles) :
          \E root \in Range(buildDirectories), e \in Range(fs) :
              /\ RootExists(root)
              /\ Candidate(e, root)
              /\ assemblyFiles[n].assemblyPath = EntryPath(e)
              /\ assemblyFiles[n].buildDirectory = root
              /\ \E k \in KernelsOfText(e.lines) :
                    /\ assemblyFiles[n].kernelSymbol = k.kernelSymbol
                    /\ assemblyFiles[n].startLine = k.startLine
    /\ \A i, j \in 1..Len(assemblyFiles) :
          i < j => RootIndex(assemblyFiles[i].buildDirectory)
                      <= RootIndex(assemblyFiles[j].buildDirectory)

NoStatFails == \A e \in Range(fs) : e.fails # "stat"

\* on a disk where every entry can be stat-ed, missing roots, unreadable
\* files and unlistable directories take nothing from the other files
ScanSkipsWhatItCannotRead ==
    Listed /\ NoStatFails => UsableFilesContribute /\ ScanIsSoundAndOrdered

---------------------------------------------------------------------------
(* C19 *)

\* C19: whatever root is missing and whatever other entry cannot be stat-ed
\* or read, every readable assembly file of the convention in a directory
\* the scan can list, under an existing root it scans, contributes all its
\* kernels to the result.
C19_BadEntriesCostNothingElse ==
    Listed => UsableFilesContribute

---------------------------------------------------------------------------
(* C20 *)

\* C20: the records of a scan are the kernels of exactly the regular files
\* of the convention under the existing roots scanned, each tagged with its
\* root, in the order of the roots, which are the configured ones, or build
\* when none is configured.
C20_RecordsOfExactlyTheConventionFiles ==
    Listed => ScanIsSoundAndOrdered /\ UsableFilesContribute

---------------------------------------------------------------------------
(* C29 *)

ReverseMaps(i, path, line) ==
    /\ mapHas(lineMapping.asmToSource, i)
    /\ mapGet(lineMapping.asmToSource, i) = [file |-> path, line |-> line]

BucketHolds(n, i) ==
    \E k \in 1..Len(lineMapping.sourceToAsm[n].value) :
        lineMapping.sourceToAsm[n].value[k] = i

Buckets == 1..Len(lineMapping.sourceToAsm)

\* every index a bucket holds is sent to the bucket's (path, line) by the
\* reverse map
BucketsAgreeWithReverseMap ==
    \A n \in Buckets : \A i \in LineIndices :
        BucketHolds(n, i) =>
            ReverseMaps(i, lineMapping.sourceToAsm[n].key[1],
                        lineMapping.sourceToAsm[n].key[2])

\* every instruction line the reverse map sends to (path, line) is in the
\* bucket of (path, line)
MappedInstructionsAreInBuckets ==
    \A i \in LineIndices :
        (mapHas(lineMapping.asmToSource, i) /\ ~SpecNonInstruction(content[i + 1]))
            => \E n \in Buckets :
                  /\ lineMapping.sourceToAsm[n].key
                        = <<mapGet(lineMapping.asmToSource, i).file,
                            mapGet(lineMapping.asmToSource, i).line>>
                  /\ BucketHolds(n, i)

\* no index is held twice, in one bucket or in two, and every bucket ascends
BucketsDisjointAscending ==
    /\ \A n1, n2 \in Buckets :
          \A k1 \in 1..Len(lineMapping.sourceToAsm[n1].value) :
              \A k2 \in 1..Len(lineMapping.sourceToAsm[n2].value) :
                  lineMapping.sourceToAsm[n1].value[k1]
                        = lineMapping.sourceToAsm[n2].value[k2]
                      => n1 = n2 /\ k1 = k2
    /\ \A n \in Buckets :
          \A k1, k2 \in 1..Len(lineMapping.sourceToAsm[n].value) :
              k1 < k2 => lineMapping.sourceToAsm[n].value[k1]
                            < lineMapping.sourceToAsm[n].value[k2]

\* the two maps agree on every line but the '#' comments
MapsAgreeButOnHashComments ==
    Built =>
        /\ BucketsAgreeWithReverseMap
        /\ MappedInstructionsAreInBuckets
        /\ BucketsDisjointAscending
        /\ \A i \in LineIndices :
              (InSomeBucket(i) /\ content[i + 1] # HashComment)
                  => ~SpecNonInstruction(content[i + 1])

\* C29: after buildMapping an index i is in the forward bucket of (path, line)
\* if and only if the reverse map sends i to (path, line) and line i is an
\* instruction (not blank, a directive, a comment or a bare label); so no
\* index is in two buckets or twice in one, and every bucket ascends.
C29_ForwardAndReverseMapsAgree ==
    Built =>
        /\ BucketsAgreeWithReverseMap
        /\ MappedInstructionsAreInBuckets
        /\ \A i \in LineIndices :
              InSomeBucket(i) => ~SpecNonInstruction(content[i + 1])
        /\ BucketsDisjointAscending

---------------------------------------------------------------------------
(* C30 *)

\* the location directive at line j resolves and no location directive of
\* the lines j+1 .. i has a file-id missing from the table
ActiveFrom(j, i) ==
    /\ IsLocText(content[j + 1])
    /\ Resolves(LocOfText(content[j + 1]).fileId)
    /\ \A m \in (j + 1)..i :
          IsLocText(content[m + 1]) => Resolves(LocOfText(content[m + 1]).fileId)

\* C30: after buildMapping every line that follows a location directive of a
\* resolvable file-id, with no directive of an unresolvable file-id between
\* them or on it, has a reverse-map entry, also when a directive in force
\* names source line 0.
C30_MappingStaysActiveAfterResolvableLoc ==
    Built =>
        \A i \in LineIndices : \A j \in 0..(i - 1) :
            ActiveFrom(j, i) => mapHas(lineMapping.asmToSource, i)

---------------------------------------------------------------------------
(* The session claims.  A scan step is a step in which a waiting           *)
(* updateAssembly receives its scan result.                                *)

\* the step takes a handler out of the given stage
Leaves(stage) == \E r \in requests : r.stage = stage /\ r \notin requests'

ScanStep == Leaves("scanning")

\* two records describe the same kernel with the same content
SameKernelText(a, b) ==
    /\ a.assemblyFile = b.assemblyFile
    /\ a.kernelSymbol = b.kernelSymbol
    /\ a.startLine = b.startLine
    /\ a.endLine = b.endLine
    /\ a.assemblyContent = b.assemblyContent

\* the mapping built from the content of a record
MappingOf(record) ==
    buildMapping(record.assemblyContent,
                 extractSourceFilesFromAssembly(record.assemblyContent))

---------------------------------------------------------------------------
(* C21 *)

\* C21: after a scan step that stores a non-empty list, the selected kernel
\* is a kernel of that list with the content the scan read, and the active
\* line mapping is the mapping of that content; a kernel selected before the
\* scan does not stay selected.
C21_ScanRebuildsTheSession ==
    [][(ScanStep /\ Len(matches') > 0) =>
          /\ selectedMatch' # Undefined
          /\ \E n \in 1..Len(matches') :
                /\ SameKernelText(matches'[n], selectedMatch')
                /\ lineMapping' = MappingOf(matches'[n])]_vars

---------------------------------------------------------------------------
(* C22 *)

\* C22: in every state of the session, and so at every point where another
\* handler can run, the active line mapping is the mapping built from the
\* content of the selected match, and the empty mapping while no match is
\* selected.
C22_MappingIsThatOfTheSelectedMatch ==
    IF selectedMatch = Undefined
    THEN lineMapping = emptyMapping
    ELSE lineMapping = MappingOf(selectedMatch)

\* a selectMatch handler waits for its view after it has selected a match
\* whose mapping is not that of the first match of the list
C22_Witness ==
    /\ \E r \in requests : r.kind = "select" /\ r.stage = "rendering"
    /\ selectedMatch # Undefined
    /\ Len(matches) > 1
    /\ lineMapping # MappingOf(matches[1])
    /\ lineMapping = MappingOf(selectedMatch)

---------------------------------------------------------------------------
(* C23 *)

\* no call of updateAssembly is waiting
ScansOver == \A r \in requests : r.kind # "scan"

\* C23: once every scan has run to completion, the match list is the one of
\* the scan issued last, that is, of the document the panel was last asked
\* to show: each match is a kernel of that document.
C23_LastIssuedScanWins ==
    ScansOver =>
        \A n \in 1..Len(matches) :
            matches[n].sourceFile = basename(currentDocument)

---------------------------------------------------------------------------
(* C24 *)

\* what c++filt can print for a name, trimmed, when it prints something
ToolNames ==
    {trim(run.stdout) : run \in {t \in ToolRuns : ~t.failed /\ trim(t.stdout) # <<>>}}

\* shown is the mangled name or a trimmed answer of the tool
ShownFor(mangled, shown) == shown = mangled \/ shown \in ToolNames

\* demangleSymbol gives the mangled name back when the tool fails or prints
\* nothing, and its trimmed output otherwise
DemangleFallsBack(mangled) ==
    \A run \in ToolRuns :
        demangleSymbol(mangled, run) =
            IF run.failed \/ trim(run.stdout) = <<>>
            THEN mangled ELSE trim(run.stdout)

---------------------------------------------------------------------------
(* C26 *)

\* C26: whenever a match is selected it is an element of the current match
\* list (a record of the list describes the same kernel with the same
\* content), and while the list is empty no match is selected.
C26_SelectedMatchIsInTheList ==
    /\ selectedMatch # Undefined =>
          \E n \in 1..Len(matches) : SameKernelText(matches[n], selectedMatch)
    /\ Len(matches) = 0 => selectedMatch = Undefined

---------------------------------------------------------------------------
(* C27 *)

\* C27: a compare request never fails.  No compare request is rejected, and
\* when a version is picked the diff has the selected record on its left and
\* a different record of the current list, with the same symbol, on its
\* right.
C27_CompareNeverFails ==
    /\ "compare" \notin rejections
    /\ \A r \in requests :
          r.stage = "diffing" =>
              /\ r.diff.match1 = selectedMatch
              /\ r.diff.match2 # r.diff.match1
              /\ r.diff.match2.kernelSymbol = r.diff.match1.kernelSymbol
              /\ \E n \in 1..Len(matches) : matches[n] = r.diff.match2

---------------------------------------------------------------------------
(* C28 *)

\* the place of a match's kernel in the order the scan discovered the kernels
PlaceIn(files, match) ==
    Min({n \in 1..Len(files) :
            /\ files[n].assemblyPath = match.assemblyFile
            /\ files[n].kernelSymbol = match.kernelSymbol})

\* C28: when a scan stores a non-empty list while no match is selected, the
\* match it selects is a record of the list whose file no other record's
\* file is newer than, and among the records of that modification time the
\* one the scan discovered first.
C28_DefaultIsTheNewestFirstDiscovered ==
    [][(ScanStep /\ selectedMatch = Undefined /\ Len(matches') > 0) =>
          /\ \E n \in 1..Len(matches') : matches'[n] = selectedMatch'
          /\ \A n \in 1..Len(matches') :
                \/ DiskTime(matches'[n].assemblyFile)
                       < DiskTime(selectedMatch'.assemblyFile)
                \/ /\ DiskTime(matches'[n].assemblyFile)
                           = DiskTime(selectedMatch'.assemblyFile)
                   /\ PlaceIn(assemblyFiles', selectedMatch')
                           <= PlaceIn(assemblyFiles', matches'[n])]_vars

\* the first scan has selected the kernel of build2, discovered second and
\* newer than the kernel of build
C28_Witness ==
    /\ html = Undefined
    /\ \E r \in requests : r.kind = "scan" /\ r.stage = "rendering"
    /\ Len(matches) = 2
    /\ selectedMatch # Undefined
    /\ selectedMatch.buildDirectory = BuildDirectory2
    /\ \E n \in 1..Len(matches) :
          /\ matches[n].buildDirectory = DefaultBuildDirectory
          /\ DiskTime(matches[n].assemblyFile)
                 < DiskTime(selectedMatch.assemblyFile)

---------------------------------------------------------------------------
(* C25 *)

---------------------------------------------------------------------------
(* C31 *)

\* the instruction lines the panel highlights for a cursor on line n of the
\* document: highlightAssemblyForSourceLine on the mapping of a record
HighlightedFor(record, document, n) ==
    getAssemblyLines(mappingOfMatch(record), document, n)

\* C31: for a cursor on editor line n, the lines the resolver puts in a
\* record's assemblyLines and the lines the forward lookup returns for the
\* document on that record's mapping lie under the same `.loc` source line.
C31_CommandAndHighlightShareOneConvention ==
    Matched =>
        \A k \in MatchIndices, document \in Documents :
            basename(document) = basename(query.sourceFile) =>
                \A i \in Range(matches[k].assemblyLines),
                   j \in Range(HighlightedFor(matches[k], document,
                                              query.sourceLine)) :
                    LatestMatchLoc(i).line = LatestMatchLoc(j).line


---------------------------------------------------------------------------
(* C32 *)

\* the documents an editor can hold whose basename is the queried one: in
\* the directory the `.file` directives record, and in another one
DocumentsQueried ==
    {document \in Documents \cup {QueryPathB} :
        basename(document) = basename(query.sourceFile)}

\* the instructions under a location directive of file-id id for editor
\* line n, that is `.loc` line n + 1
InstructionsUnder(id, n) ==
    {i \in LineIndices :
        /\ content[i + 1] \in {InstrLine, StoreLine}
        /\ MatchLocsUpTo(i) # {}
        /\ LatestMatchLoc(i).fileId = id
        /\ LatestMatchLoc(i).line = n + 1}

\* C32: for every record the resolver matched to a document by basename,
\* highlighting for that document on an editor line that has instructions
\* under the matched file-id finds those instructions, whatever directory
\* the `.file` directive recorded.
C32_HighlightIdentifiesTheFileAsTheResolver ==
    Matched =>
        \A k \in MatchIndices, document \in DocumentsQueried, n \in 0..5 :
            InstructionsUnder(
                findTargetFileId(compilerFiles, basename(query.sourceFile)),
                n)
              \subseteq Range(HighlightedFor(matches[k], document, n))

\* the same for the documents of the recorded directory only
HighlightFindsLinesInTheRecordedDirectory ==
    Matched =>
        \A k \in MatchIndices, document \in DocumentsQueried \cap Documents,
           n \in 0..5 :
            InstructionsUnder(
                findTargetFileId(compilerFiles, basename(query.sourceFile)),
                n)
              \subseteq Range(HighlightedFor(matches[k], document, n))


---------------------------------------------------------------------------
(* C33 *)

\* the region of a record holds no location directive of file-id id
NoLocOf(record, id) ==
    \A i \in record.startLine..record.endLine :
        IsMatchLoc(i) => MatchLocOf(i).fileId # id

\* C33: the records scanned from one assembly file all hold the file table
\* of the whole file, so for a query they are all returned, resolved to the
\* same file-id, when that table names the queried file, and all excluded
\* when it does not, whether or not a region holds a location directive of
\* the queried file.
C33_RegionsShareTheFileTable ==
    Matched =>
        /\ \A a \in 1..Len(assemblyFiles) :
              assemblyFiles[a].sourceFiles =
                  extractSourceFiles(assemblyFiles[a].assemblyContent)
        /\ IF NamedEntries = {}
           THEN Len(matches) = 0
           ELSE /\ KernelsOf(matches) = KernelsOf(assemblyFiles)
                /\ \A a \in 1..Len(assemblyFiles) :
                      findTargetFileId(assemblyFiles[a].sourceFiles,
                                       QueryName) = FirstNamedId

\* two regions returned for a query, one with a location directive of the
\* matched file-id and one without
C33_Witness ==
    /\ Matched
    /\ Len(matches) = 2
    /\ NamedEntries # {}
    /\ NoLocOf(matches[1], FirstNamedId)
    /\ ~NoLocOf(matches[2], FirstNamedId)


---------------------------------------------------------------------------
(* C34 *)

\* the calls of updateAssembly made for createOrShow: request 1 is the call
\* of the constructor, made when createOrShow creates the panel; on a panel
\* that exists createOrShow is the only caller that passes a line
FromCreateOrShow(r) == r.kind = "scan" /\ (r.id = 1 \/ r.sourceLine >= 0)

\* the call r scans with the line of the cursor, and when its view has been
\* rendered with a match selected the lines of that source line are
\* highlighted
ScansAndHighlightsTheLine(r) ==
    /\ r.sourceLine \in CursorLines
    /\ (r.stage = "rendering" /\ r \notin requests'
                              /\ selectedMatch # Undefined) =>
          asmLines' = getAssemblyLines(lineMapping, r.document, r.sourceLine)

\* C34: createOrShow(document, sourceLine) triggers a scan queried with that
\* source line and then highlights the assembly for it, when it creates the
\* panel as when the panel exists.
C34_CreateOrShowScansAndHighlightsTheLine ==
    [][\A r \in requests :
          FromCreateOrShow(r) => ScansAndHighlightsTheLine(r)]_vars

\* the same for the calls on a panel that exists
ExistingPanelScansAndHighlightsTheLine ==
    [][\A r \in requests :
          (FromCreateOrShow(r) /\ r.id # 1) =>
              ScansAndHighlightsTheLine(r)]_vars


---------------------------------------------------------------------------
(* Clicks in the panel, selection changes in the editor and their timers.  *)
(* The panel shows two builds of a.hip, the first one selected, in the     *)
(* assembly view or in the diff view.  Time is counted in milliseconds and *)
(* advances by Tick; a timer runs at the time it is due, before any event  *)
(* of that time is handled (the event loop runs its due timers before it   *)
(* polls for messages).  A timer is [kind, due]: "reset" clears the        *)
(* programmatic-selection flag, "debounce" is the one of extension.ts.     *)

\* setTimeout(..., 150) of the selection handler
DebounceDelay == 150
\* setTimeout(..., 200) of the click handlers
ResetDelay == 200
\* the step of the clock: both delays are multiples of it
Tick == ResetDelay - DebounceDelay
\* no click and no selection change arms a timer due after MaxClock
MaxClock == 300

\* the assembly lines a click can be on: a .file line and an instruction
ClickLines == {0, 4}

Sides == {"left", "right"}

timer(kind, due) == [kind |-> kind, due |-> due]

\* no timer is due
NothingDue == \A t \in timers : t.due > now

\* setTimeout(callback, delay): a timer due delay milliseconds from now
setTimeout(pending, kind, delay) == pending \cup {timer(kind, now + delay)}

\* a clearTimeout that leaves the timer armed
clearTimeout_keepsTimer(pending, handle) == pending

\* if (handle) clearTimeout(handle): nothing happens when the handle is
\* undefined or its timer has run
clearTimeout(pending, handle) == pending \ {handle}

\* the builds on disk and the list updateAssembly has stored for a.hip
TimerDisk == SessionDisk(BuildOf(SessionTextA, 1), BuildOf(SessionTextA2, 2))

\* the states compareMatches can have left: no diff, the selected build
\* against the other one
TimerDiffStates(found) ==
    {Undefined,
     [match1 |-> found[1], match2 |-> found[2], index1 |-> 0, index2 |-> 1]}

\* updateAssembly has scanned for a.hip, sorted the matches and selected the
\* first one
TimerInit ==
    /\ fs = TimerDisk
    /\ configuration = SessionRoots
    /\ buildDirectories = updateBuildDirectories(configuration)
    /\ assemblyFiles = findAssemblyFiles(fs, WorkspaceFolder, configuration)
    /\ \E found \in {findMatchingAssemblies(assemblyFiles, NameA, 0)} :
          matches = sortByTime(fs, found, Len(found))
    /\ selectedMatch = matches[1]
    /\ lineMapping = mappingOfMatch(selectedMatch)
    /\ diffState \in TimerDiffStates(matches)
    /\ html = IF diffState = Undefined
              THEN getWebviewContent(fs, matches, selectedMatch)
              ELSE getDiffViewContent(diffState)
    /\ content = selectedMatch.assemblyContent
    /\ sourceFiles = extractSourceFilesFromAssembly(content)
    /\ location = Undefined
    /\ asmLines = <<>>
    /\ query = Undefined
    /\ compilerFiles = <<>>
    /\ kernels = <<>>
    /\ pc = "timed"
    /\ requests = {}
    /\ issued = 1
    /\ currentDocument = PathA
    /\ rejections = {}
    /\ NoTimers

timerFrame ==
    UNCHANGED <<content, sourceFiles, lineMapping, query, compilerFiles,
                kernels, pc, scanVars, viewVars, sessionVars>>

\* the part the two click handlers share: when the clicked line has a source
\* location the flag is set and a timer is armed that clears it
highlightSource(mapping, assemblyLine) ==
    /\ location' = getSourceLocation(mapping, assemblyLine)
    /\ IF location' # Undefined
       THEN /\ now + ResetDelay <= MaxClock
            /\ isProgrammaticSelection' = TRUE
            /\ timers' = setTimeout(timers, "reset", ResetDelay)
       ELSE UNCHANGED <<isProgrammaticSelection, timers>>

\* case 'highlightSource', sent by the assembly view
HighlightSourceFromAssembly ==
    /\ currentPanel /\ NothingDue
    /\ diffState = Undefined
    /\ selectedMatch # Undefined
    /\ \E assemblyLine \in ClickLines :
          highlightSource(lineMapping, assemblyLine)
    /\ timerFrame
    /\ UNCHANGED <<asmLines, now, selectionTimeout, currentPanel,
                   highlightRequests>>

\* case 'highlightSourceFromDiff', sent by the diff view
HighlightSourceFromDiff ==
    /\ currentPanel /\ NothingDue
    /\ diffState # Undefined
    /\ \E assemblyLine \in ClickLines, side \in Sides :
          highlightSource(
              mappingOfMatch(IF side = "left" THEN diffState.match1
                                              ELSE diffState.match2),
              assemblyLine)
    /\ timerFrame
    /\ UNCHANGED <<asmLines, now, selectionTimeout, currentPanel,
                   highlightRequests>>

\* onDidChangeTextEditorSelection for an editor of a supported file type or
\* not: the handler returns early, or clears the timer it armed last and
\* arms a new one
selectionChanged(supported) ==
    IF ~supported \/ ~currentPanel \/ isProgrammaticSelection
    THEN UNCHANGED <<timers, selectionTimeout>>
    ELSE /\ selectionTimeout' = timer("debounce", now + DebounceDelay)
         /\ timers' = setTimeout(clearTimeout(timers, selectionTimeout),
                                 "debounce", DebounceDelay)

SelectionChanged ==
    /\ NothingDue
    /\ now + DebounceDelay <= MaxClock
    /\ \E supported \in BOOLEAN : selectionChanged(supported)
    /\ timerFrame
    /\ UNCHANGED <<location, asmLines, now, isProgrammaticSelection,
                   currentPanel, highlightRequests>>

\* the callback of the debounce timer: clearHighlights, then, when a panel
\* is open, highlightAssemblyForSourceLine(document, line of the cursor)
SelectionTimeoutFires ==
    /\ \E t \in timers :
          /\ t.kind = "debounce" /\ t.due <= now
          /\ timers' = timers \ {t}
          /\ IF currentPanel
             THEN /\ highlightRequests' = highlightRequests + 1
                  /\ \E sourceLine \in CursorLines :
                        \E found \in {getAssemblyLines(lineMapping,
                                                       currentDocument,
                                                       sourceLine)} :
                           asmLines' = IF selectedMatch # Undefined
                                          /\ Len(found) > 0
                                       THEN found ELSE asmLines
             ELSE UNCHANGED <<highlightRequests, asmLines>>
    /\ timerFrame
    /\ UNCHANGED <<location, now, selectionTimeout, isProgrammaticSelection,
                   currentPanel>>

\* the callback of a reset timer
ResetFires ==
    /\ \E t \in timers :
          /\ t.kind = "reset" /\ t.due <= now
          /\ timers' = timers \ {t}
    /\ isProgrammaticSelection' = FALSE
    /\ timerFrame
    /\ UNCHANGED <<location, asmLines, now, selectionTimeout, currentPanel,
                   highlightRequests>>

\* a dispose that also cancels the timers that are armed
Dispose_cancelsTimers ==
    /\ currentPanel /\ NothingDue
    /\ currentPanel' = FALSE
    /\ timers' = {}
    /\ timerFrame
    /\ UNCHANGED <<location, asmLines, now, selectionTimeout,
                   isProgrammaticSelection, highlightRequests>>

\* the panel is closed: currentPanel = undefined, the panel and its
\* listeners are disposed of; the timers stay armed and the flag, a static
\* field, keeps its value
Dispose ==
    /\ currentPanel /\ NothingDue
    /\ currentPanel' = FALSE
    /\ timerFrame
    /\ UNCHANGED <<location, asmLines, now, timers, selectionTimeout,
                   isProgrammaticSelection, highlightRequests>>

\* time passes while no timer is due
TimePasses ==
    /\ NothingDue
    /\ now + Tick <= MaxClock
    /\ now' = now + Tick
    /\ timerFrame
    /\ UNCHANGED <<location, asmLines, timers, selectionTimeout,
                   isProgrammaticSelection, currentPanel, highlightRequests>>

TimerNext ==
    \/ HighlightSourceFromAssembly
    \/ HighlightSourceFromDiff
    \/ SelectionChanged
    \/ SelectionTimeoutFires
    \/ ResetFires
    \/ Dispose
    \/ TimePasses

TimerSpec == TimerInit /\ [][TimerNext]_vars

\* the event loop runs every timer that is due, and time passes
TimerFairSpec ==
    /\ TimerSpec
    /\ WF_vars(SelectionTimeoutFires)
    /\ WF_vars(ResetFires)
    /\ WF_vars(TimePasses)


---------------------------------------------------------------------------
(* C35 *)

\* the reset timers that are armed: one armed by a click at time t is due
\* at t + ResetDelay
ResetTimers == {t \in timers : t.kind = "reset"}

\* C35: after a click, in the assembly view or in the diff view, that
\* resolves to a source location at time t, the flag is true at every
\* instant of [t, t + 200 ms), also when the click comes less than 200 ms
\* after another one: while the timer of a click is not due the flag is set.
C35_FlagHoldsForTheWholeWindow ==
    \A t \in ResetTimers : now < t.due => isProgrammaticSelection


---------------------------------------------------------------------------
(* C36 *)

\* a step of a click handler that found a source location: the lookup has
\* a result and the reset timer is armed
ResolvingClick ==
    /\ location' # Undefined
    /\ timer("reset", now + ResetDelay) \in timers'
    /\ UNCHANGED now

\* C36: the flag is set only by a click that resolves to a source location,
\* and once set it becomes false again when the armed reset timers have
\* run; it is not left true forever, also when the panel is disposed of
\* while a timer is armed.
C36_FlagIsSetByClicksAndClearedAgain ==
    /\ [][(isProgrammaticSelection' /\ ~isProgrammaticSelection) =>
              ResolvingClick]_vars
    /\ (isProgrammaticSelection ~> ~isProgrammaticSelection)

\* the panel has been disposed of while the flag is set and a reset timer
\* is armed
C36_Witness ==
    /\ isProgrammaticSelection
    /\ ~currentPanel
    /\ ResetTimers # {}


---------------------------------------------------------------------------
(* C37 *)

\* the debounce timers that are armed
DebounceTimers == {t \in timers : t.kind = "debounce"}

\* a selection change of an editor of a supported file type while the panel
\* is open and the flag is false
QualifyingEvent ==
    /\ currentPanel /\ ~isProgrammaticSelection
    /\ selectionChanged(TRUE)
    /\ UNCHANGED <<now, highlightRequests>>

\* at most one debounce timer is armed, and a qualifying event leaves only
\* its own, due DebounceDelay after it
OneTimerDueAfterTheLastEvent ==
    /\ Cardinality(DebounceTimers) <= 1
    /\ QualifyingEvent =>
          DebounceTimers' = {timer("debounce", now + DebounceDelay)}

\* a highlight request is issued only by a debounce timer that runs at the
\* time it is due, and time does not pass a timer that is due
RequestsComeFromTimersOnTime ==
    /\ highlightRequests' # highlightRequests =>
          /\ highlightRequests' = highlightRequests + 1
          /\ \E t \in DebounceTimers \ DebounceTimers' : now = t.due
    /\ now' > now => \A t \in DebounceTimers : t.due >= now'

\* a debounce timer goes away because a later event of the burst replaces
\* it before it is due
Replaced(t) ==
    /\ now < t.due
    /\ DebounceTimers' = {timer("debounce", now + DebounceDelay)}

\* C37, as stated: in a burst of qualifying events, each less than 150 ms
\* after the one before, the timers of all but the last event are replaced
\* and the timer of the last one runs 150 ms after it and issues exactly
\* one highlight request; at most one debounce timer is armed at any time.
C37_EveryBurstIssuesOneRequest ==
    [][/\ OneTimerDueAfterTheLastEvent
       /\ RequestsComeFromTimersOnTime
       /\ \A t \in DebounceTimers \ DebounceTimers' :
             \/ Replaced(t)
             \/ /\ now = t.due
                /\ DebounceTimers' = {}
                /\ highlightRequests' = highlightRequests + 1]_vars

\* C37, amended: the timer of the last event of a burst runs 150 ms after
\* it and issues one highlight request when the panel is still open, none
\* when the panel has been disposed of since the event.
C37_BurstIssuesOneRequestIfThePanelIsOpen ==
    [][/\ OneTimerDueAfterTheLastEvent
       /\ RequestsComeFromTimersOnTime
       /\ \A t \in DebounceTimers \ DebounceTimers' :
             \/ Replaced(t)
             \/ /\ now = t.due
                /\ DebounceTimers' = {}
                /\ highlightRequests' =
                      IF currentPanel THEN highlightRequests + 1
                                      ELSE highlightRequests]_vars

\* the timer of an event that came later than the start has run on time and
\* issued the one request
C37_Witness ==
    /\ currentPanel
    /\ highlightRequests = 1
    /\ DebounceTimers = {}
    /\ now > DebounceDelay
    /\ selectionTimeout = timer("debounce", now)


---------------------------------------------------------------------------
(* C38 *)

\* the group selectMatch indexes for the file the view shows
IndexedGroup ==
    kernelsOfSelectedFile(groupMatchesByFile(matches, Len(matches)),
                          selectedMatch)

\* what identifies a kernel of the session: its symbol and build directory
ListedKernel(k) == <<html.kernels[k].mangled, html.kernels[k].buildDirectory>>
IndexedKernel(k) == <<IndexedGroup[k].kernelSymbol, IndexedGroup[k].buildDirectory>>

\* no handler is running and the assembly view lists the kernels of the
\* group selectMatch indexes
ViewListsTheIndexedGroup ==
    /\ requests = {}
    /\ html # Undefined /\ html.view = "assembly"
    /\ Len(html.kernels) = Len(IndexedGroup)
    /\ {ListedKernel(k) : k \in 1..Len(html.kernels)}
           = {IndexedKernel(k) : k \in 1..Len(IndexedGroup)}

\* C38: the kernel the assembly view lists at a position is the record
\* selectMatch selects for that kernel index: the group is listed in the
\* order in which it is indexed, also when modification times have changed
\* since the scan.
C38_DisplayedOrderIsTheIndexedOrder ==
    ViewListsTheIndexedGroup =>
        \A k \in 1..Len(html.kernels) : ListedKernel(k) = IndexedKernel(k)

\* the same while the files are as they were when the panel was opened
DisplayedOrderIsTheIndexedOrderOnTheScannedDisk ==
    fs \in SessionDisks => C38_DisplayedOrderIsTheIndexedOrder


---------------------------------------------------------------------------
(* C39 *)

\* the indices of a message designate no record of the match list: one of
\* them is negative, or not smaller than the number of file groups,
\* respectively of records of the chosen group
OutOfRange(fileIndex, kernelIndex) ==
    LET fileGroups == groupMatchesByFile(matches, Len(matches))
    IN  \/ fileIndex < 0 \/ fileIndex >= Len(fileGroups)
        \/ kernelIndex < 0
        \/ kernelIndex >= Len(fileGroups[fileIndex + 1].value)

\* C39: selectMatch with a fileIndex or kernelIndex that is negative or not
\* smaller than the number of file groups, respectively of records of the
\* chosen group, leaves the selected match, the active mapping, the match
\* list and the content of the panel unchanged.
C39_OutOfRangeSelectionChangesNothing ==
    [][OutOfRange(query'.fileIndex, query'.kernelIndex) =>
          UNCHANGED <<selectedMatch, lineMapping, matches, html>>]_vars

\* a message whose kernel index is the number of records of the group has
\* been handled, and one whose file index is negative
C39_Witness ==
    /\ "fileIndex" \in DOMAIN query
    /\ query.fileIndex = 0
    /\ query.kernelIndex = Len(matches)
    /\ selectedMatch = matches[1]

C39_WitnessNegative ==
    /\ "fileIndex" \in DOMAIN query
    /\ query.fileIndex = -1
    /\ selectedMatch # matches[1]

============================================================================
